---- MODULE Spec2Model ----
(***************************************************************************)
(* Workflow orchestration engine of ai-workflow-system: the gate policy    *)
(* resolver, the execution plan and the step loop of the MVP orchestrator  *)
(* (ai-workflow/workflow-runner.py) and of the enterprise orchestrator     *)
(* (dev_workflow/enterprise-ai-workflow-runner.py), with the document      *)
(* executor and its manifest (ai-workflow/workflow-executor.py).           *)
(***************************************************************************)
EXTENDS Integers, Sequences, FiniteSets, TLC

VARIABLES
    orch,            \* which orchestrator class runs: "mvp" or "enterprise"
    context,         \* ExecutionContext / EnterpriseExecutionContext
    dry_run,         \* the dry_run argument of execute_workflow
    gate_config,     \* config['automation_modes'][mode]['gates']: gate name -> behavior
    workflow_steps,  \* self.workflow_steps, the catalog
    plan,            \* the execution plan: the decision of each catalog step
    pc,              \* where execute_workflow stands
    idx,             \* position of the step loop in the plan
    outcome,         \* how the run ended
    returned,        \* value returned by execute_workflow
    last_input,      \* the last operator input read by input()
    confirm_reads,   \* number of reads of the run confirmation prompt
    gate_prompted,   \* steps whose gate prompt has read an input
    gen_started,     \* steps whose document workflow was invoked, in order
    llm_calls,       \* number of provider requests issued
    artifacts,       \* files written under the feature directory
    manifest,        \* feature-manifest.json as persisted
    step_results,    \* what the step loop got from each step it iterated
    caller,          \* who calls the provider adapter: the engine or a client
    config,          \* LLMConfig of the adapter: max_retries, cost_limit_usd
    usage_tracker,   \* usage_tracker of the adapter: total_tokens, total_cost_usd
    adapters,        \* number of LLMAPIIntegration objects constructed
    calls,           \* number of generate_content calls begun
    llm_pc,          \* position inside generate_content
    attempt,         \* loop variable of generate_content
    attempt_log,     \* how each attempt of the current call ended
    sleeps,          \* the time.sleep delays of the current call, in order
    usage_before,    \* usage_tracker as the current call found it
    llm_result,      \* how the last generate_content call ended
    run_cost,        \* summed cost of the responses providers returned
    criteria,        \* validation_criteria of the LLMRequest
    content,         \* the text the provider answers the request with
    llm_response,    \* the LLMResponse generate_content holds or returned
    eng_pc,          \* position inside _execute_with_ai_agent
    final_content,   \* what ContentGenerationEngine.generate_content returned
    output,          \* the file _execute_with_ai_agent wrote last
    wf_context,      \* execution_log and generated_files of a WorkflowContext
    save_history,    \* per save_to_manifest: manifest before, context, manifest after
    request,         \* the ContentGenerationRequest of the engine
    prompt,          \* what _create_specialized_prompt made of it
    exit_code,       \* the status main passed to sys.exit, once it has
    cost_limit,      \* orchestrator.cost_limit: the --cost-limit argument
    selection        \* what _select_llm_for_content_type chose, and from what

\* the state of the provider adapter
llm_vars == <<caller, config, usage_tracker, adapters, calls, llm_pc, attempt,
              attempt_log, sleeps, usage_before, llm_result, run_cost>>

\* a WorkflowContext that is saved to the manifest, and its saves
man_vars == <<wf_context, save_history>>

\* the process around a run
main_vars == <<exit_code, cost_limit>>

\* prompt assembly of the content generation engine
prompt_vars == <<request, prompt, selection>>

\* the state of one generation of the content generation engine
eng_vars == <<criteria, content, llm_response, eng_pc, final_content, output>>

vars == <<orch, context, dry_run, gate_config, workflow_steps, plan, pc, idx,
          outcome, returned, last_input, confirm_reads, gate_prompted,
          gen_started, llm_calls, artifacts, manifest, step_results, llm_vars,
          eng_vars, man_vars,
          prompt_vars, main_vars>>

(***************************************************************************)
(* Bounds                                                                  *)
(***************************************************************************)
\* longest catalog of a modelled run
MaxSteps == 3
\* largest max_retries an adapter is configured with
MaxRetries == 3
\* largest cost_limit_usd an adapter is configured with, in cost units
MaxCostLimit == 2
\* largest cost_usd of one response, in cost units
MaxCost == 1
\* largest tokens_used of one response
MaxTokens == 1
\* most generate_content calls of one behavior
MaxCalls == 3
\* longest numbered_sequence of a catalog loaded with its dependency chain
MaxLoaded == 2
\* most entries appended to one list of a WorkflowContext
MaxLog == 2
\* most save_to_manifest calls of one behavior
MaxSaves == 2
\* longest response text of a modelled generation
MaxContent == 2
\* most validation criteria of a modelled request
MaxCriteria == 2
\* longest catalog whose plan is built on its own
MaxCatalog == 9
\* most gate names the gate table of such a catalog has an entry for
MaxEntries == 1

(***************************************************************************)
(* Enumerations                                                            *)
(***************************************************************************)
Orchestrators == {"mvp", "enterprise"}

AutomationMode == {"guided", "autonomous", "learning"}

GateDecision(o) ==
    IF o = "mvp"
    THEN {"required", "optional", "skip", "learn_from_history"}
    ELSE {"required", "optional", "skip", "learn_from_history",
          "approval_board_required"}

\* behavior tokens a gate table may hold; "no_such_behavior" stands for any
\* string neither orchestrator recognizes
ConditionalBehaviors ==
    {"required_for_new_tech", "required_for_destructive",
     "required_for_new_architecture", "required_for_compliance_changes",
     "required_for_production_changes"}

Behaviors ==
    {"required", "optional", "skip", "learn_from_history",
     "required_with_approval_board", "no_such_behavior"}
    \cup ConditionalBehaviors

\* behavior tokens of the gate tables of the modelled runs
RunBehaviors ==
    {"required", "optional", "skip", "required_with_approval_board"}

\* operator answers typed at a prompt
Responses == {"y", "Y", " y", "n", "", "s", "?", "maybe"}

\* str.lower() on Responses
Lower(r) == IF r = "Y" THEN "y" ELSE r

\* str.strip() on Responses
Strip(r) == IF r = " y" THEN "y" ELSE r

(***************************************************************************)
(* Catalog                                                                 *)
(***************************************************************************)
MvpGateNames ==
    <<"feature_directory_creation", "prd_generation", "srs_generation",
      "design_decisions", "design_analysis", "task_creation",
      "task_implementation", "completion_summary", "project_history">>

EnterpriseGateNames ==
    <<"mvp_to_scaling_transition", "enterprise_design_decisions",
      "enterprise_srs_generation", "enterprise_prd_creation",
      "enterprise_design_analysis", "enterprise_task_creation",
      "enterprise_completion_summary", "enterprise_history_update">>

\* f"{i:02d}"
TwoDigits(i) == IF i < 10 THEN "0" \o ToString(i) ELSE ToString(i)

compliance_critical == {3, 4, 6, 7}

\* _initialize_workflow_steps: one step per entry of numbered_sequence
InitializeWorkflowSteps(o, n) ==
    [i \in 1..n |->
        IF o = "mvp"
        THEN [number |-> i,
              gate_name |-> IF i \in DOMAIN MvpGateNames
                            THEN MvpGateNames[i]
                            ELSE "step_" \o TwoDigits(i),
              compliance_impact |-> FALSE]
        ELSE [number |-> i,
              gate_name |-> IF i \in DOMAIN EnterpriseGateNames
                            THEN EnterpriseGateNames[i]
                            ELSE "enterprise_step_s" \o TwoDigits(i),
              compliance_impact |-> i \in compliance_critical]]

(***************************************************************************)
(* Gate policy resolver                                                    *)
(***************************************************************************)
\* mutant: a gate name missing from the table falls back to "skip"
GateConfigGetSkipDefault(name) ==
    IF name \in DOMAIN gate_config THEN gate_config[name] ELSE "skip"

\* gate_config.get(step.gate_name, "required")
GateConfigGet(name) ==
    IF name \in DOMAIN gate_config THEN gate_config[name] ELSE "required"

\* mutant: the learning gate hands the undecided behavior back
EvaluateLearningGateUndecided(step, ctx) == "learn_from_history"

\* WorkflowOrchestrator._evaluate_learning_gate
EvaluateLearningGate(step, ctx) == "required"

\* WorkflowOrchestrator._evaluate_technology_gate
EvaluateTechnologyGate(step, ctx) == "optional"

\* mutant: the destructive gate never asks for approval
EvaluateDestructiveGateNever(step, ctx) == "optional"

\* WorkflowOrchestrator._evaluate_destructive_gate
EvaluateDestructiveGate(step, ctx) ==
    IF step.gate_name = "task_implementation" THEN "required" ELSE "optional"

\* WorkflowOrchestrator.is_gate_required
IsGateRequired(step, ctx) ==
    LET gate_behavior == GateConfigGet(step.gate_name) IN
    CASE gate_behavior = "required" -> "required"
      [] gate_behavior = "optional" -> "optional"
      [] gate_behavior = "skip" -> "skip"
      [] gate_behavior = "learn_from_history" -> EvaluateLearningGate(step, ctx)
      [] gate_behavior = "required_for_new_tech" -> EvaluateTechnologyGate(step, ctx)
      [] gate_behavior = "required_for_destructive" -> EvaluateDestructiveGate(step, ctx)
      [] OTHER -> "required"

\* EnterpriseWorkflowOrchestrator._evaluate_enterprise_learning_gate
EvaluateEnterpriseLearningGate(step, ctx) == "required"

\* EnterpriseWorkflowOrchestrator._evaluate_architecture_gate
EvaluateArchitectureGate(step, ctx) ==
    IF ctx.architecture_impact THEN "required" ELSE "optional"

\* mutant: the compliance gate never asks for approval
EvaluateComplianceGateNever(step, ctx) == "optional"

\* EnterpriseWorkflowOrchestrator._evaluate_compliance_gate
EvaluateComplianceGate(step, ctx) ==
    IF ctx.compliance_framework /\ step.compliance_impact
    THEN "required" ELSE "optional"

\* EnterpriseWorkflowOrchestrator._evaluate_production_gate
EvaluateProductionGate(step, ctx) ==
    IF step.gate_name = "enterprise_task_creation" THEN "required" ELSE "optional"

\* mutant: no compliance override
ComplianceOverrideNone(gate_behavior, step, ctx) == gate_behavior

\* the compliance override at the head of is_enterprise_gate_required
ComplianceOverride(gate_behavior, step, ctx) ==
    IF ctx.compliance_framework /\ step.compliance_impact /\ gate_behavior = "skip"
    THEN "required"
    ELSE gate_behavior

\* EnterpriseWorkflowOrchestrator.is_enterprise_gate_required
IsEnterpriseGateRequired(step, ctx) ==
    LET gate_behavior ==
            ComplianceOverride(GateConfigGet(step.gate_name), step, ctx) IN
    CASE gate_behavior = "required" -> "required"
      [] gate_behavior = "optional" -> "optional"
      [] gate_behavior = "skip" -> "skip"
      [] gate_behavior = "learn_from_history" ->
            EvaluateEnterpriseLearningGate(step, ctx)
      [] gate_behavior = "required_for_new_architecture" ->
            EvaluateArchitectureGate(step, ctx)
      [] gate_behavior = "required_for_compliance_changes" ->
            EvaluateComplianceGate(step, ctx)
      [] gate_behavior = "required_for_production_changes" ->
            EvaluateProductionGate(step, ctx)
      [] gate_behavior = "required_with_approval_board" -> "approval_board_required"
      [] OTHER -> "required"

\* the resolver of the running orchestrator
ResolveGate(o, step, ctx) ==
    IF o = "mvp" THEN IsGateRequired(step, ctx)
    ELSE IsEnterpriseGateRequired(step, ctx)

\* mutant: the plan holds a pair only for the steps whose gate is not skipped
CreateExecutionPlanGatedOnly(o, steps, ctx) ==
    SelectSeq([i \in DOMAIN steps |-> ResolveGate(o, steps[i], ctx)],
              LAMBDA d : d # "skip")

\* create_execution_plan / create_enterprise_execution_plan
CreateExecutionPlan(o, steps, ctx) ==
    [i \in DOMAIN steps |-> ResolveGate(o, steps[i], ctx)]

(***************************************************************************)
(* Orchestrator: execute_workflow / execute_enterprise_workflow            *)
(***************************************************************************)
\* the test guarding the confirmation prompt: the MVP orchestrator skips it in
\* autonomous mode, the enterprise orchestrator has no such test
ConfirmationSkipped(o, mode) == o = "mvp" /\ mode = "autonomous"

\* mutant: only the decision required opens a gate, in both orchestrators
GateNeededRequiredOnly(o, decision) == decision = "required"

\* mutant: every decision but skip opens a gate
GateNeededUnlessSkip(o, decision) == decision # "skip"

\* the test guarding the human gate in _execute_step / _execute_enterprise_step
GateNeeded(o, decision) ==
    IF o = "mvp" THEN decision = "required"
    ELSE decision \in {"required", "approval_board_required"}

\* the text the gate compares: input().lower().strip() in the MVP gate,
\* response.lower() in the enterprise gate
GateResponse(o, r) == IF o = "mvp" THEN Strip(Lower(r)) ELSE Lower(r)

\* mutant: only an explicit "n" rejects; an empty answer is no answer
GateVerdictEmptyAsksAgain(o, r) ==
    LET response == GateResponse(o, r) IN
    CASE response = "y" -> "approve"
      [] response = "n" -> "reject"
      [] response = "s" /\ o = "mvp" -> "approve"
      [] response = "?" /\ o = "mvp" -> "raise"
      [] response = "" -> "again"
      [] OTHER -> IF o = "mvp" THEN "again" ELSE "reject"

\* mutant: the MVP gate asks again after 'n' and after the empty answer
GateVerdictRejectAsksAgain(o, r) ==
    LET response == GateResponse(o, r) IN
    IF o = "mvp"
    THEN CASE response = "y" -> "approve"
           [] response = "s" -> "approve"
           [] response = "?" -> "raise"
           [] OTHER -> "again"
    ELSE IF response = "y" THEN "approve" ELSE "reject"

\* verdict of _execute_human_gate / _execute_enterprise_human_gate on one input:
\* "approve" (returns True), "reject" (returns False), "raise" (an exception
\* leaves the gate) or "again" (the prompt is shown again)
GateVerdict(o, r) ==
    LET response == GateResponse(o, r) IN
    IF o = "mvp"
    THEN CASE response = "y" -> "approve"
           [] response = "n" \/ response = "" -> "reject"
           [] response = "s" -> "approve"
           [] response = "?" -> "raise"   \* step.number - 1 on a str: TypeError
           [] OTHER -> "again"
    ELSE IF response = "y" THEN "approve" ELSE "reject"

\* response.lower() != 'y' at the confirmation prompt
ConfirmationAccepted(r) == Lower(r) = "y"

\* position of the step loop on entering step i of the plan p
StepEntry(o, p, i) == IF GateNeeded(o, p[i]) THEN "gate" ELSE "generate"

NoInput == [at |-> "none", step |-> 0, response |-> ""]

EmptyManifest == [exists |-> FALSE, execution_log |-> <<>>, generated_files |-> <<>>]

\* mutant: the save writes the context's lists in place of the persisted ones
SaveToManifestOverwrite(m, execution_log, generated_files) ==
    [exists |-> TRUE,
     execution_log |-> execution_log,
     generated_files |-> generated_files]

\* WorkflowContext.save_to_manifest: read (or create), extend both lists, write
SaveToManifest(m, execution_log, generated_files) ==
    [exists |-> TRUE,
     execution_log |-> m.execution_log \o execution_log,
     generated_files |-> m.generated_files \o generated_files]

\* contexts a run may start with; the MVP ExecutionContext carries no
\* compliance or architecture flag
Contexts(o) ==
    {c \in [mode : AutomationMode,
            compliance_framework : BOOLEAN,
            architecture_impact : BOOLEAN] :
        o = "mvp" => ~c.compliance_framework /\ ~c.architecture_impact}

\* gate tables over the gate names `names` with entries for the names in D
GateTables(D, behaviors) == [D -> behaviors]

(***************************************************************************)
(* The provider adapter (LLMAPIIntegration): pure parts                    *)
(* Costs are counted in whole cost units of half the 0.0001 USD that       *)
(* get_usage_stats rounds to; the code adds floats, and adding a           *)
(* non-negative float never lowers a float total.                          *)
(***************************************************************************)
\* the max_retries and cost_limit_usd fields of LLMConfig
LLMConfigs == [max_retries : 0..MaxRetries, cost_limit_usd : 0..MaxCostLimit]

\* the tokens_used and cost_usd fields of an LLMResponse
LLMResponses == [tokens_used : 0..MaxTokens, cost_usd : 0..MaxCost]

NoResponse == [tokens_used |-> 0, cost_usd |-> 0]

\* LLMAPIIntegration.__init__: self.usage_tracker
NewUsageTracker == [total_tokens |-> 0, total_cost_usd |-> 0]

\* mutant: a total equal to the limit passes the budget test
CostLimitExceededStrictly(tracker, cfg) ==
    tracker.total_cost_usd > cfg.cost_limit_usd

\* the budget test at the head of generate_content
CostLimitExceeded(tracker, cfg) == tracker.total_cost_usd >= cfg.cost_limit_usd

\* mutant: the tracker keeps the usage of the last response only
RecordUsageOverwrite(tracker, r) ==
    [total_tokens |-> r.tokens_used, total_cost_usd |-> r.cost_usd]

\* "Update usage tracking": both totals grow by the response's usage
RecordUsage(tracker, r) ==
    [total_tokens |-> tracker.total_tokens + r.tokens_used,
     total_cost_usd |-> tracker.total_cost_usd + r.cost_usd]

\* cost units in 0.0001 USD, the resolution of round(x, 4)
RoundingStep == 2

\* round(x, 4) on a cost in cost units: to the nearest multiple of
\* RoundingStep, a tie going to the even multiple
Round4(x) ==
    LET q == x \div RoundingStep
        rem == x % RoundingStep
    IN  IF 2 * rem < RoundingStep THEN q * RoundingStep
        ELSE IF 2 * rem > RoundingStep THEN (q + 1) * RoundingStep
        ELSE IF q % 2 = 0 THEN q * RoundingStep
        ELSE (q + 1) * RoundingStep

\* LLMAPIIntegration.get_usage_stats
GetUsageStats(tracker, cfg) ==
    [total_tokens |-> tracker.total_tokens,
     total_cost_usd |-> Round4(tracker.total_cost_usd),
     cost_limit_usd |-> cfg.cost_limit_usd,
     remaining_budget_usd |->
         Round4(cfg.cost_limit_usd - tracker.total_cost_usd)]

\* mutant: the test that ends the retries is made one attempt late
LastAttemptLate(a, cfg) == a = cfg.max_retries

\* `if attempt == self.config.max_retries - 1: raise`
LastAttempt(a, cfg) == a = cfg.max_retries - 1

\* time.sleep(2 ** attempt)
Backoff(a) == 2 ^ a

\* how one pass through the try block of generate_content ends: the response
\* is returned, the provider request raises, or the request answers and
\* _validate_response raises on the answer (a criterion it cannot parse, a
\* response without text)
AttemptOutcomes == {"ok", "provider_error", "validation_raised"}

\* has the provider answered the request of an attempt that ended this way
Answered(out) == out \in {"ok", "validation_raised"}

\* how a generate_content call ended: kind "response" returns r, "raised"
\* re-raises the exception of attempt a (0-based) which ended as `out`,
\* "rejected" is the RuntimeError of the budget test, "returned_none" is the
\* fall off the end of a loop that never ran
LLMResult(kind, r, a, out) ==
    [kind |-> kind, response |-> r, attempt |-> a, outcome |-> out]

NoResult == LLMResult("none", NoResponse, 0, "none")

\* no adapter is constructed
NoAdapter ==
    /\ caller = "none"
    /\ config = [max_retries |-> 0, cost_limit_usd |-> 0]
    /\ usage_tracker = NewUsageTracker
    /\ adapters = 0
    /\ calls = 0
    /\ llm_pc = "idle"
    /\ attempt = 0
    /\ attempt_log = <<>>
    /\ sleeps = <<>>
    /\ usage_before = NewUsageTracker
    /\ llm_result = NoResult
    /\ run_cost = 0

(***************************************************************************)
(* Response validation (LLMAPIIntegration._validate_response) and the      *)
(* engine's post-processing. A text is a sequence of characters.           *)
(***************************************************************************)
Chars == {"#", "a", "A", " "}

\* the texts of at most n characters
Texts(n) == UNION {[1..k -> Chars] : k \in 0..n}

\* str.lower on one character and on a text
LowerChar(c) == IF c = "A" THEN "a" ELSE c

LowerText(t) == [k \in DOMAIN t |-> LowerChar(t[k])]

\* str.strip on a text
RECURSIVE StripText(_)
StripText(t) ==
    IF t = <<>> THEN t
    ELSE IF Head(t) = " " THEN StripText(Tail(t))
    ELSE IF t[Len(t)] = " " THEN StripText(SubSeq(t, 1, Len(t) - 1))
    ELSE t

\* `sub in t` on texts
Contains(t, sub) ==
    \E i \in 0..(Len(t) - Len(sub)) : SubSeq(t, i + 1, i + Len(sub)) = sub

\* the markers of the contains_markdown criterion present in the alphabet
MarkdownMarkers == {"#"}

\* a validation criterion "key" or "key:arg" as _validate_response reads it:
\* the key with its letter case, int(arg) where the key wants a number (and
\* whether arg is an integer literal), arg as a text where the key wants one
Criterion(key, int_ok, n, text) ==
    [key |-> key, int_ok |-> int_ok, n |-> n, text |-> text]

Criteria ==
    {Criterion(k, TRUE, 0, <<>>) :
        k \in {"not_empty", "NOT_EMPTY", "contains_markdown", "MIN_LENGTH",
               "no_such_criterion"}}
    \cup {Criterion("min_length", TRUE, n, <<>>) : n \in 1..MaxContent}
    \cup {Criterion("min_length", FALSE, 0, <<>>)}
    \cup {Criterion("contains", TRUE, 0, <<"A">>)}

\* criterion.lower() for the two keys compared in lower case
LowerKey(k) == IF k = "NOT_EMPTY" THEN "not_empty" ELSE k

\* mutant: not_empty never reports an error
CriterionErrorLenient(c, t) ==
    CASE c.key = "min_length" /\ ~c.int_ok -> "raise"
      [] c.key = "min_length" /\ Len(t) < c.n -> "too_short"
      [] c.key = "contains" /\ ~Contains(LowerText(t), LowerText(c.text)) ->
            "missing_text"
      [] OTHER -> "none"

\* one pass of the loop body of _validate_response: the error the criterion
\* appends ("none": it appends nothing), or "raise" when int() raises
CriterionError(c, t) ==
    CASE LowerKey(c.key) = "not_empty" /\ StripText(t) = <<>> -> "empty"
      [] LowerKey(c.key) = "contains_markdown"
            /\ ~\E k \in DOMAIN t : t[k] \in MarkdownMarkers -> "no_markdown"
      [] c.key = "min_length" /\ ~c.int_ok -> "raise"
      [] c.key = "min_length" /\ Len(t) < c.n -> "too_short"
      [] c.key = "contains" /\ ~Contains(LowerText(t), LowerText(c.text)) ->
            "missing_text"
      [] OTHER -> "none"

\* the validation_errors list after the criteria cs, in order
RECURSIVE ValidationErrors(_, _)
ValidationErrors(cs, t) ==
    IF cs = <<>> THEN <<>>
    ELSE (IF CriterionError(Head(cs), t) \in {"none", "raise"} THEN <<>>
          ELSE <<CriterionError(Head(cs), t)>>)
         \o ValidationErrors(Tail(cs), t)

\* does _validate_response raise on the criteria cs
ValidationRaises(cs, t) ==
    \E k \in DOMAIN cs : CriterionError(cs[k], t) = "raise"

\* an LLMResponse: content, validated, validation_errors; errors_none says
\* that validation_errors is still None
Response(t, validated, errors_none, errors) ==
    [content |-> t, validated |-> validated, errors_none |-> errors_none,
     validation_errors |-> errors]

\* the LLMResponse a provider call builds: validated = False,
\* validation_errors = None
ProviderResponse(t) == Response(t, FALSE, TRUE, <<>>)

\* _validate_response when it does not raise; generate_content calls it only
\* for a non-empty criteria list
ValidateResponse(resp, cs) ==
    IF cs = <<>> THEN resp
    ELSE Response(resp.content,
                  ValidationErrors(cs, resp.content) = <<>>,
                  FALSE,
                  ValidationErrors(cs, resp.content))

\* _post_process_content: a header line, the stripped content without a
\* first line that is a title naming the feature, a footer
FeatureWord == "a"

PostProcess(t) ==
    LET cleaned == StripText(t)
        titled == /\ cleaned # <<>>
                  /\ Head(cleaned) = "#"
                  /\ \E k \in DOMAIN cleaned : LowerChar(cleaned[k]) = FeatureWord
    IN  <<"header">> \o (IF titled THEN <<>> ELSE cleaned) \o <<"footer">>

\* a WorkflowContext as the runner constructs it for a step
(***************************************************************************)
(* Prompt assembly of the content generation engine                        *)
(***************************************************************************)
\* directories and file names of workflow documents
DocDirs == {"lean-workflow", "elsewhere"}
DocNames == {"gen-prd.md", "gen-tasks.md"}

\* content types with instructions of their own once project data is present
ContentTypes == {"prd", "tasks", "design_decisions"}

\* what a section of a workflow document tells the model to do
DocSections == {"objective", "questionnaire"}

\* the bodies of workflow documents: up to n sections
Bodies(n) == UNION {[1..k -> DocSections] : k \in 0..n}

\* values of project_data['recommended_tech_stack']; "" when the key is absent
TechStacks == {"", "Django+React"}

\* the requests of the engine: the workflow document, by directory and name,
\* is absent, or present and then readable or not; a document that cannot be
\* read has no body to offer; project data is empty or not, and only project
\* data that is not empty can hold a technology selection
Requests ==
    {q \in [doc_dir : DocDirs, doc_name : DocNames, doc_exists : BOOLEAN,
            doc_readable : BOOLEAN, body : Bodies(MaxContent),
            project_data : BOOLEAN, tech_stack : TechStacks,
            content_type : ContentTypes] :
        /\ ~q.doc_exists => ~q.doc_readable
        /\ ~q.doc_readable => q.body = <<>>
        /\ ~q.project_data => q.tech_stack = ""}

\* the request of a generation whose workflow document is in place
DefaultRequest ==
    [doc_dir |-> "lean-workflow", doc_name |-> "gen-prd.md",
     doc_exists |-> TRUE, doc_readable |-> TRUE, body |-> <<"objective">>,
     project_data |-> FALSE, tech_stack |-> "", content_type |-> "prd"]

\* one element of prompt_parts: what it is and the request text it carries
Part(kind, text) == [kind |-> kind, text |-> text]

\* request.workflow_document, the path as given
WorkflowDocument(req) == <<req.doc_dir, req.doc_name>>

\* Path(request.workflow_document).name
PathName(path) == <<path[Len(path)]>>

\* the parts about the workflow document: its name and body when the path
\* exists, else its path twice (title and request to execute it)
DocumentParts(req) ==
    IF req.doc_exists
    THEN <<Part("title", PathName(WorkflowDocument(req))),
           Part("content_heading", <<>>),
           Part("body", req.body),
           Part("follow_instruction", <<>>)>>
    ELSE <<Part("title", WorkflowDocument(req)),
           Part("please_execute", WorkflowDocument(req))>>

\* project_data.get('recommended_tech_stack', default)
TechStackOr(req, default) ==
    IF req.tech_stack = "" THEN default ELSE req.tech_stack

\* the parts added only when request.context.project_data is not empty: the
\* data, the lines quoting its fields, and the instructions of the content
\* type, which quote the selected stack
ProjectDataParts(req) ==
    IF req.project_data
    THEN <<Part("project_data", <<req.tech_stack>>),
           Part("use_real_data", <<TechStackOr(req, "Unknown Tech Stack")>>),
           Part("type_instructions",
                <<req.content_type,
                  TechStackOr(req, IF req.content_type = "tasks"
                                   THEN "specified stack"
                                   ELSE "technologies")>>)>>
    ELSE <<>>

\* the final override, added last for design decisions with project data
OverrideParts(req) ==
    IF req.content_type = "design_decisions" /\ req.project_data
    THEN <<Part("final_override", <<TechStackOr(req, "None")>>)>>
    ELSE <<>>

\* mutant: a missing workflow document makes the prompt assembly raise
CreateSpecializedPromptStrict(req) ==
    IF ~(req.doc_exists /\ req.doc_readable)
    THEN [raised |-> TRUE, parts |-> <<>>]
    ELSE [raised |-> FALSE,
          parts |-> DocumentParts(req) \o <<Part("project_context", <<>>)>>]

\* _create_specialized_prompt: the parts joined into LLMRequest.prompt, or the
\* exception of open()/read() on a document that exists but cannot be read
CreateSpecializedPrompt(req) ==
    IF req.doc_exists /\ ~req.doc_readable
    THEN [raised |-> TRUE, parts |-> <<>>]
    ELSE [raised |-> FALSE,
          parts |-> DocumentParts(req)
                    \o <<Part("project_context", <<>>)>>
                    \o ProjectDataParts(req)
                    \o <<Part("instructions", <<>>),
                         Part("output_requirements", <<>>),
                         Part("integration", <<>>)>>
                    \o OverrideParts(req)]

(***************************************************************************)
(* Provider selection of the content generation engine                     *)
(***************************************************************************)
\* content_type_mapping of _select_llm_for_content_type: content type ->
\* key of workflow_specific_configs (the entries the model draws from)
content_type_mapping ==
    [t \in {"mvp_entrypoint", "prd", "srs", "design_decisions", "tasks"} |->
        CASE t = "mvp_entrypoint" -> "mvp_entrypoint"
          [] t = "prd" -> "gen_prd"
          [] t = "srs" -> "gen_srs"
          [] t = "design_decisions" -> "gen_design_decisions"
          [] OTHER -> "gen_tasks_and_testing"]

\* the content types _determine_content_type hands to the engine; the type
\* project_history (step 09) has no entry in content_type_mapping
SelectableTypes == DOMAIN content_type_mapping \cup {"project_history"}

\* the keys workflow_specific_configs of a provider config may hold
ConfigKeys == {content_type_mapping[t] : t \in DOMAIN content_type_mapping}

\* content_type_mapping.get(content_type, "gen_prd")
ConfigKeyOf(t) ==
    IF t \in DOMAIN content_type_mapping THEN content_type_mapping[t]
    ELSE "gen_prd"

\* what a selection is: an adapter built from the specialized config under
\* config_key, or the default adapter; configs are the keys the config held
Selection(kind, key, configs) ==
    [kind |-> kind, config_key |-> key, configs |-> configs]

NoSelection == Selection("none", "none", {})

\* _select_llm_for_content_type
SelectLLMForContentType(t, configs) ==
    IF ConfigKeyOf(t) \in configs
    THEN Selection("specialized", ConfigKeyOf(t), configs)
    ELSE Selection("default", "none", configs)

\* exit_code of a process that is still running
NotExited == -1

\* args.cost_limit when --cost-limit is not given (None)
NoOverride == -1

\* no prompt assembled
NoPrompt == [raised |-> FALSE, parts |-> <<>>]

\* the engine has assembled no prompt yet, the process has not exited
NoPromptYet ==
    /\ request = DefaultRequest
    /\ prompt = NoPrompt
    /\ exit_code = NotExited
    /\ cost_limit = NoOverride
    /\ selection = NoSelection

NewWorkflowContext == [execution_log |-> <<>>, generated_files |-> <<>>]

\* no WorkflowContext is being saved
NoContext ==
    /\ wf_context = NewWorkflowContext
    /\ save_history = <<>>

NoOutput == [file |-> "none", content |-> <<>>]

\* no generation is under way
NoEngine ==
    /\ criteria = <<>>
    /\ content = <<>>
    /\ llm_response = ProviderResponse(<<>>)
    /\ eng_pc = "idle"
    /\ final_content = <<>>
    /\ output = NoOutput

\* the state of a run nothing has touched yet
Untouched ==
    /\ plan = <<>>
    /\ idx = 0
    /\ outcome = "none"
    /\ returned = "none"
    /\ last_input = NoInput
    /\ confirm_reads = 0
    /\ gate_prompted = {}
    /\ gen_started = <<>>
    /\ llm_calls = 0
    /\ artifacts = {}
    /\ manifest = EmptyManifest
    /\ step_results = <<>>

Init ==
    /\ orch \in Orchestrators
    /\ context \in {c \in Contexts(orch) : ~c.architecture_impact}
    /\ dry_run \in BOOLEAN
    /\ \E n \in 1..MaxSteps :
          workflow_steps = InitializeWorkflowSteps(orch, n)
    /\ gate_config \in
          GateTables({workflow_steps[i].gate_name : i \in DOMAIN workflow_steps},
                     RunBehaviors)
    /\ pc = "start"
    /\ Untouched
    /\ NoAdapter
    /\ NoEngine
    /\ NoContext
    /\ NoPromptYet

\* mutant: the dry-run test comes after the confirmation
AfterPlanConfirmFirst(o, ctx, dry) ==
    IF ConfirmationSkipped(o, ctx.mode) THEN (IF dry THEN "done" ELSE "run")
    ELSE "confirm"

\* where execute_workflow goes once the plan is displayed: a dry run returns,
\* otherwise the confirmation is asked unless the orchestrator skips it
AfterPlan(o, ctx, dry) ==
    IF dry THEN "done"
    ELSE IF ConfirmationSkipped(o, ctx.mode) THEN "run"
    ELSE "confirm"

\* execute_workflow up to its first input(): build and display the plan, end
\* a dry run, or start the loop when no confirmation is asked
ExecuteWorkflow ==
    /\ pc = "start"
    /\ plan' = CreateExecutionPlan(orch, workflow_steps, context)
    /\ CASE AfterPlan(orch, context, dry_run) = "done" ->
                /\ pc' = "done"
                /\ outcome' = "DryRunComplete"
                /\ returned' = "True"
                /\ idx' = idx
         [] AfterPlan(orch, context, dry_run) = "run" ->
                /\ idx' = 1
                /\ pc' = StepEntry(orch, plan', 1)
                /\ UNCHANGED <<outcome, returned>>
         [] OTHER ->
                /\ pc' = "confirm"
                /\ UNCHANGED <<idx, outcome, returned>>
    /\ UNCHANGED <<orch, context, dry_run, gate_config, workflow_steps,
                   last_input, confirm_reads, gate_prompted, gen_started,
                   llm_calls, artifacts, manifest, step_results>>
    /\ UNCHANGED llm_vars
    /\ UNCHANGED eng_vars
    /\ UNCHANGED man_vars
    /\ UNCHANGED prompt_vars
    /\ UNCHANGED main_vars

\* the answer to "Start workflow execution? (y/N)"
ConfirmExecution(r) ==
    /\ pc = "confirm"
    /\ last_input' = [at |-> "confirm", step |-> 0, response |-> Lower(r)]
    /\ confirm_reads' = confirm_reads + 1
    /\ IF ConfirmationAccepted(r)
       THEN /\ idx' = 1
            /\ pc' = StepEntry(orch, plan, 1)
            /\ UNCHANGED <<outcome, returned>>
       ELSE /\ pc' = "done"
            /\ outcome' = "Cancelled"
            /\ returned' = "False"
            /\ idx' = idx
    /\ UNCHANGED <<orch, context, dry_run, gate_config, workflow_steps, plan,
                   gate_prompted, gen_started, llm_calls, artifacts, manifest,
                   step_results>>
    /\ UNCHANGED llm_vars
    /\ UNCHANGED eng_vars
    /\ UNCHANGED man_vars
    /\ UNCHANGED prompt_vars
    /\ UNCHANGED main_vars

\* what the step loop learns from one iteration: did the step return True
\* (False also stands for an exception the loop caught), and how did the
\* generation call of the step end ("none": no generation call was made)
StepResult(i, success, generation, project_data) ==
    [number |-> i, success |-> success, generation |-> generation,
     project_data |-> project_data]

\* the project data a run has accumulated: one field per completed step
AccumulatedData(results) ==
    {results[k].number : k \in {j \in DOMAIN results : results[j].success}}

\* project_data of the WorkflowContext that _execute_document_workflow builds
\* for a step, whatever the run has accumulated: the literal {}
StepProjectData(accumulated) == {}

\* one input() of _execute_human_gate / _execute_enterprise_human_gate
ExecuteHumanGate(r) ==
    /\ pc = "gate"
    /\ last_input' = [at |-> "gate", step |-> idx,
                      response |-> GateResponse(orch, r)]
    /\ gate_prompted' = gate_prompted \cup {idx}
    /\ CASE GateVerdict(orch, r) = "approve" ->
                /\ pc' = "generate"
                /\ UNCHANGED <<outcome, returned, step_results>>
         [] GateVerdict(orch, r) = "again" ->
                /\ pc' = "gate"
                /\ UNCHANGED <<outcome, returned, step_results>>
         [] OTHER ->
                \* a rejection returns False; an exception is caught by the
                \* step loop: both end the loop with success = False
                /\ pc' = "done"
                /\ outcome' = "Failed"
                /\ returned' = "False"
                /\ step_results' = Append(step_results,
                                          StepResult(idx, FALSE, "none", {}))
    /\ UNCHANGED <<orch, context, dry_run, gate_config, workflow_steps, plan,
                   idx, confirm_reads, gen_started, llm_calls, artifacts,
                   manifest>>
    /\ UNCHANGED llm_vars
    /\ UNCHANGED eng_vars
    /\ UNCHANGED man_vars
    /\ UNCHANGED prompt_vars
    /\ UNCHANGED main_vars

\* what the environment does to one document workflow of the MVP orchestrator:
\* each record names the first thing that goes wrong, if anything does
DocEnv ==
    {e \in [doc_exists : BOOLEAN, parse_ok : BOOLEAN,
            llm : {"ok", "engine_error", "provider_error"},
            fallback_ok : BOOLEAN, manifest_ok : BOOLEAN] :
        /\ ~e.doc_exists => e.parse_ok
        /\ ~(e.doc_exists /\ e.parse_ok) => e.llm = "ok"
        /\ e.llm = "ok" => e.fallback_ok
        /\ ~(e.doc_exists /\ e.parse_ok /\ e.fallback_ok) => e.manifest_ok}

\* the enterprise document workflow is a stub that reads nothing
DocEnvOf(o) ==
    IF o = "mvp" THEN DocEnv
    ELSE {e \in DocEnv : /\ e.doc_exists /\ e.parse_ok /\ e.llm = "ok"
                         /\ e.fallback_ok /\ e.manifest_ok}

\* files _execute_with_ai_agent (or its fallback) writes for step i
FilesWritten(i, env) ==
    IF env.llm = "ok" THEN <<(<<i, "primary">>), (<<i, "status">>)>>
    ELSE IF env.fallback_ok THEN <<(<<i, "status">>)>>
    ELSE <<>>

\* does _execute_with_ai_agent return True
AgentSucceeds(env) == env.llm = "ok" \/ env.fallback_ok

\* mutant: a step whose manifest write raised still returns True
DocumentWorkflowSucceedsUnsaved(o, env) ==
    IF o = "mvp"
    THEN env.doc_exists /\ env.parse_ok /\ AgentSucceeds(env)
    ELSE TRUE

\* does _execute_document_workflow return True
DocumentWorkflowSucceeds(o, env) ==
    IF o = "mvp"
    THEN env.doc_exists /\ env.parse_ok /\ AgentSucceeds(env) /\ env.manifest_ok
    ELSE TRUE

\* mutant: the loop runs the step it has just finished once more
NextIterationSame(p, i) == i

\* `for step, gate_decision in plan`: the plan position the loop takes after
\* position i, which is not the last one
NextIteration(p, i) == i + 1

\* mutant: the loop goes on after a step that did not succeed
AfterStepIgnoringFailure(step_success, last) ==
    IF last THEN "Succeeded" ELSE "continue"

\* the step loop after one step: a step that returned False or raised sets
\* success = False and breaks; after the last step success is still True
AfterStep(step_success, last) ==
    IF ~step_success THEN "Failed"
    ELSE IF last THEN "Succeeded"
    ELSE "continue"

\* how the generation call of _execute_with_ai_agent ends; the call is made
\* only by the MVP orchestrator, once the workflow document is read and parsed
GenerationOutcome(o, env) ==
    IF o = "mvp" /\ env.doc_exists /\ env.parse_ok THEN env.llm ELSE "none"

\* _execute_document_workflow / _execute_enterprise_document_workflow of the
\* current step, and the step loop up to the next input() or blocking call
ExecuteDocumentWorkflow(env) ==
    /\ pc = "generate"
    /\ gen_started' = Append(gen_started, idx)
    /\ step_results' = Append(step_results,
                              StepResult(idx, DocumentWorkflowSucceeds(orch, env),
                                         GenerationOutcome(orch, env),
                                         StepProjectData(
                                             AccumulatedData(step_results))))
    /\ IF orch = "mvp" /\ env.doc_exists /\ env.parse_ok
       THEN LET files == FilesWritten(idx, env) IN
            /\ llm_calls' = IF env.llm = "engine_error" THEN llm_calls
                            ELSE llm_calls + 1
            /\ artifacts' = artifacts \cup {files[k] : k \in DOMAIN files}
            /\ manifest' = IF AgentSucceeds(env) /\ env.manifest_ok
                           THEN SaveToManifest(manifest, <<idx>>, files)
                           ELSE manifest
       ELSE UNCHANGED <<llm_calls, artifacts, manifest>>
    /\ CASE AfterStep(DocumentWorkflowSucceeds(orch, env), idx = Len(plan))
                = "Succeeded" ->
                /\ pc' = "done"
                /\ outcome' = "Succeeded"
                /\ returned' = "True"
                /\ idx' = idx
         [] AfterStep(DocumentWorkflowSucceeds(orch, env), idx = Len(plan))
                = "continue" ->
                /\ idx' = NextIteration(plan, idx)
                /\ pc' = StepEntry(orch, plan, NextIteration(plan, idx))
                /\ UNCHANGED <<outcome, returned>>
         [] OTHER ->
                /\ pc' = "done"
                /\ outcome' = "Failed"
                /\ returned' = "False"
                /\ idx' = idx
    /\ UNCHANGED <<orch, context, dry_run, gate_config, workflow_steps, plan,
                   last_input, confirm_reads, gate_prompted>>
    /\ UNCHANGED llm_vars
    /\ UNCHANGED eng_vars
    /\ UNCHANGED man_vars
    /\ UNCHANGED prompt_vars
    /\ UNCHANGED main_vars

Next ==
    \/ ExecuteWorkflow
    \/ \E r \in Responses : ConfirmExecution(r)
    \/ \E r \in Responses : ExecuteHumanGate(r)
    \/ \E env \in DocEnvOf(orch) : ExecuteDocumentWorkflow(env)

Spec == Init /\ [][Next]_vars

(***************************************************************************)
(* A run whose operator and provider keep answering: every blocking call   *)
(* of the run returns (input() at the confirmation and at a gate, the      *)
(* document workflow with its provider attempts), and the operator gives   *)
(* an answer the gate offers (y, n, s or the empty line) to each gate.     *)
(***************************************************************************)
\* the answers the gate prompt "Decision (y/N/s/?)" offers as decisions
RecognizedAnswers == {r \in Responses : Strip(Lower(r)) \in {"y", "n", "s", ""}}

\* gate table entries of the runs checked for termination: a gate that
\* prompts and a gate that does not
LiveBehaviors == {"required", "skip"}

LiveInit ==
    /\ Init
    /\ \A g \in DOMAIN gate_config : gate_config[g] \in LiveBehaviors

Fairness ==
    /\ WF_vars(ExecuteWorkflow)
    /\ WF_vars(\E r \in Responses : ConfirmExecution(r))
    /\ WF_vars(\E r \in RecognizedAnswers : ExecuteHumanGate(r))
    /\ WF_vars(\E env \in DocEnvOf(orch) : ExecuteDocumentWorkflow(env))

SpecLive == LiveInit /\ [][Next]_vars /\ Fairness

(***************************************************************************)
(* A run the operator may interrupt (Ctrl-C) while it waits: at the        *)
(* confirmation, at a gate prompt, or while the provider call of the MVP   *)
(* document workflow is in flight.                                         *)
(***************************************************************************)
\* where a run waits: the two input() calls and the provider request
WaitingAt(p) == IF p = "generate" THEN "provider" ELSE p

\* is a KeyboardInterrupt raised at this point caught by the orchestrator: only
\* the prompt loop of the MVP gate has `except KeyboardInterrupt`; every other
\* handler on the way up to main is `except Exception`, which lets it pass
InterruptCaught(o, at) == o = "mvp" /\ at = "gate"

\* KeyboardInterrupt raised in the call the run is waiting in
KeyboardInterrupt ==
    /\ pc \in {"confirm", "gate", "generate"}
    /\ pc = "generate" => orch = "mvp"
    /\ pc' = "done"
    /\ idx' = idx
    /\ last_input' = IF pc = "generate" THEN last_input
                     ELSE [at |-> pc, step |-> IF pc = "gate" THEN idx ELSE 0,
                           response |-> "KeyboardInterrupt"]
    /\ confirm_reads' = IF pc = "confirm" THEN confirm_reads + 1
                        ELSE confirm_reads
    /\ gate_prompted' = IF pc = "gate" THEN gate_prompted \cup {idx}
                        ELSE gate_prompted
    /\ gen_started' = IF pc = "generate" THEN Append(gen_started, idx)
                      ELSE gen_started
    /\ llm_calls' = IF pc = "generate" THEN llm_calls + 1 ELSE llm_calls
    /\ IF InterruptCaught(orch, WaitingAt(pc))
       THEN \* _execute_human_gate returns False: the loop breaks
            /\ outcome' = "Failed"
            /\ returned' = "False"
            /\ step_results' = Append(step_results,
                                      StepResult(idx, FALSE, "none", {}))
       ELSE \* the exception leaves execute_workflow and main
            /\ outcome' = outcome
            /\ returned' = "KeyboardInterrupt"
            /\ step_results' = step_results
    /\ UNCHANGED <<orch, context, dry_run, gate_config, workflow_steps, plan,
                   artifacts, manifest>>
    /\ UNCHANGED llm_vars
    /\ UNCHANGED eng_vars
    /\ UNCHANGED man_vars
    /\ UNCHANGED prompt_vars
    /\ UNCHANGED main_vars

InterruptNext == Next \/ KeyboardInterrupt

SpecInterrupt == Init /\ [][InterruptNext]_vars

(***************************************************************************)
(* The process: main calls execute_workflow / execute_enterprise_workflow  *)
(* and exits with a status made of what the call returned.                 *)
(***************************************************************************)
\* status of a Python process ended by a KeyboardInterrupt nothing caught
InterruptStatus == 130

\* mutant: main exits with 0 whatever the run returned
ExitCodeAlwaysZero(ret) == 0

\* `sys.exit(0 if success else 1)`; a KeyboardInterrupt passes the
\* `except Exception` of main and ends the interpreter
ExitCode(ret) ==
    CASE ret = "True" -> 0
      [] ret = "KeyboardInterrupt" -> InterruptStatus
      [] OTHER -> 1

\* main after the orchestrator's call has ended
Exit ==
    /\ pc = "done"
    /\ pc' = "exited"
    /\ exit_code' = ExitCode(returned)
    /\ UNCHANGED cost_limit
    /\ UNCHANGED <<orch, context, dry_run, gate_config, workflow_steps, plan,
                   idx, outcome, returned, last_input, confirm_reads,
                   gate_prompted, gen_started, llm_calls, artifacts, manifest,
                   step_results>>
    /\ UNCHANGED llm_vars
    /\ UNCHANGED eng_vars
    /\ UNCHANGED man_vars
    /\ UNCHANGED prompt_vars

MainNext == InterruptNext \/ Exit

SpecMain == Init /\ [][MainNext]_vars

(***************************************************************************)
(* Plan building on its own: a full catalog, a gate table with entries for *)
(* at most MaxEntries of its gate names, any behavior token, any context   *)
(***************************************************************************)
GateInit ==
    /\ orch \in Orchestrators
    /\ context \in Contexts(orch)
    /\ dry_run = TRUE
    /\ \E n \in 1..MaxCatalog :
          workflow_steps = InitializeWorkflowSteps(orch, n)
    /\ \E D \in SUBSET {workflow_steps[i].gate_name : i \in DOMAIN workflow_steps} :
          /\ Cardinality(D) <= MaxEntries
          /\ gate_config \in GateTables(D, Behaviors)
    /\ pc = "plan"
    /\ Untouched
    /\ NoAdapter
    /\ NoEngine
    /\ NoContext
    /\ NoPromptYet

\* WorkflowOrchestrator.create_execution_plan on the catalog
BuildExecutionPlan ==
    /\ pc = "plan"
    /\ orch = "mvp"
    /\ plan' = CreateExecutionPlan(orch, workflow_steps, context)
    /\ pc' = "planned"
    /\ UNCHANGED <<orch, context, dry_run, gate_config, workflow_steps, idx,
                   outcome, returned, last_input, confirm_reads, gate_prompted,
                   gen_started, llm_calls, artifacts, manifest, step_results>>
    /\ UNCHANGED llm_vars
    /\ UNCHANGED eng_vars
    /\ UNCHANGED man_vars
    /\ UNCHANGED prompt_vars
    /\ UNCHANGED main_vars

\* EnterpriseWorkflowOrchestrator.create_enterprise_execution_plan on the catalog
BuildEnterpriseExecutionPlan ==
    /\ pc = "plan"
    /\ orch = "enterprise"
    /\ plan' = CreateExecutionPlan(orch, workflow_steps, context)
    /\ pc' = "planned"
    /\ UNCHANGED <<orch, context, dry_run, gate_config, workflow_steps, idx,
                   outcome, returned, last_input, confirm_reads, gate_prompted,
                   gen_started, llm_calls, artifacts, manifest, step_results>>
    /\ UNCHANGED llm_vars
    /\ UNCHANGED eng_vars
    /\ UNCHANGED man_vars
    /\ UNCHANGED prompt_vars
    /\ UNCHANGED main_vars

\* a second call of create_execution_plan / create_enterprise_execution_plan
\* on the same orchestrator with the same context
RebuildExecutionPlan ==
    /\ pc = "planned"
    /\ plan' = CreateExecutionPlan(orch, workflow_steps, context)
    /\ pc' = "replanned"
    /\ UNCHANGED <<orch, context, dry_run, gate_config, workflow_steps, idx,
                   outcome, returned, last_input, confirm_reads, gate_prompted,
                   gen_started, llm_calls, artifacts, manifest, step_results>>
    /\ UNCHANGED llm_vars
    /\ UNCHANGED eng_vars
    /\ UNCHANGED man_vars
    /\ UNCHANGED prompt_vars
    /\ UNCHANGED main_vars

GateNext ==
    \/ BuildExecutionPlan
    \/ BuildEnterpriseExecutionPlan
    \/ RebuildExecutionPlan

SpecGate == GateInit /\ [][GateNext]_vars

(***************************************************************************)
(* The provider adapter on its own: a sequence of generate_content calls,  *)
(* made either by ContentGenerationEngine.generate_content, once per step  *)
(* of a run, or by a client that holds one LLMAPIIntegration object        *)
(***************************************************************************)
run_vars == <<orch, context, dry_run, gate_config, workflow_steps, plan, pc,
              idx, outcome, returned, last_input, confirm_reads, gate_prompted,
              gen_started, llm_calls, artifacts, manifest, step_results>>

LLMInit ==
    /\ caller \in {"engine", "client"}
    /\ config \in LLMConfigs
    /\ usage_tracker = NewUsageTracker
    /\ adapters = IF caller = "client" THEN 1 ELSE 0
    /\ calls = 0
    /\ llm_pc = "idle"
    /\ attempt = 0
    /\ attempt_log = <<>>
    /\ sleeps = <<>>
    /\ usage_before = NewUsageTracker
    /\ llm_result = NoResult
    /\ run_cost = 0
    /\ orch = "mvp"
    /\ context = [mode |-> "autonomous", compliance_framework |-> FALSE,
                  architecture_impact |-> FALSE]
    /\ dry_run = FALSE
    /\ workflow_steps = InitializeWorkflowSteps("mvp", MaxCalls)
    /\ gate_config = [n \in {} |-> "required"]
    /\ pc = "start"
    /\ Untouched
    /\ NoEngine
    /\ NoContext
    /\ NoPromptYet

\* generate_content up to its loop, on an adapter whose tracker is `tracker`:
\* the budget test, then the first pass of `for attempt in range(max_retries)`
EnterGenerateContent(tracker) ==
    /\ calls' = calls + 1
    /\ usage_before' = tracker
    /\ usage_tracker' = tracker
    /\ attempt_log' = <<>>
    /\ sleeps' = <<>>
    /\ attempt' = 0
    /\ IF CostLimitExceeded(tracker, config)
       THEN /\ llm_pc' = "idle"
            /\ llm_result' = LLMResult("rejected", NoResponse, 0, "none")
       ELSE IF config.max_retries <= 0
       THEN /\ llm_pc' = "idle"
            /\ llm_result' = LLMResult("returned_none", NoResponse, 0, "none")
       ELSE /\ llm_pc' = "attempt"
            /\ llm_result' = NoResult

\* a client calls generate_content on the adapter it holds
GenerateContent ==
    /\ caller = "client"
    /\ llm_pc = "idle"
    /\ calls < MaxCalls
    /\ EnterGenerateContent(usage_tracker)
    /\ UNCHANGED <<caller, config, adapters, run_cost>>
    /\ UNCHANGED run_vars
    /\ UNCHANGED man_vars
    /\ UNCHANGED prompt_vars
    /\ UNCHANGED main_vars
    /\ UNCHANGED eng_vars

\* ContentGenerationEngine.generate_content for the next step of a run:
\* _select_llm_for_content_type constructs an LLMAPIIntegration (the executor
\* has constructed the engine for this step), then generate_content is called
\* on the new object
EngineGenerateContent ==
    /\ caller = "engine"
    /\ llm_pc = "idle"
    /\ calls < MaxCalls
    /\ adapters' = adapters + 1
    /\ EnterGenerateContent(NewUsageTracker)
    /\ UNCHANGED <<caller, config, run_cost>>
    /\ UNCHANGED run_vars
    /\ UNCHANGED man_vars
    /\ UNCHANGED prompt_vars
    /\ UNCHANGED main_vars
    /\ UNCHANGED eng_vars

\* one pass through the try block of generate_content and its except clause,
\* as far as the adapter's own state goes
AttemptStep(out, r) ==
    /\ llm_pc = "attempt"
    /\ attempt_log' = Append(attempt_log, out)
    /\ usage_tracker' = IF Answered(out) THEN RecordUsage(usage_tracker, r)
                        ELSE usage_tracker
    /\ run_cost' = IF Answered(out) THEN run_cost + r.cost_usd ELSE run_cost
    /\ IF out = "ok"
       THEN /\ llm_pc' = "idle"
            /\ llm_result' = LLMResult("response", r, attempt, out)
            /\ UNCHANGED <<attempt, sleeps>>
       ELSE IF LastAttempt(attempt, config)
       THEN /\ llm_pc' = "idle"
            /\ llm_result' = LLMResult("raised", NoResponse, attempt, out)
            /\ UNCHANGED <<attempt, sleeps>>
       ELSE /\ llm_pc' = "attempt"
            /\ sleeps' = Append(sleeps, Backoff(attempt))
            /\ attempt' = attempt + 1
            /\ UNCHANGED llm_result
    /\ UNCHANGED <<caller, config, adapters, calls, usage_before>>

\* one attempt of a call whose request and response texts are left open
ProviderAttempt(out, r) ==
    /\ AttemptStep(out, r)
    /\ UNCHANGED run_vars
    /\ UNCHANGED man_vars
    /\ UNCHANGED prompt_vars
    /\ UNCHANGED main_vars
    /\ UNCHANGED eng_vars

\* what the provider and the validation do to one attempt
AttemptEnv ==
    {e \in [out : AttemptOutcomes, r : LLMResponses] :
        ~Answered(e.out) => e.r = NoResponse}

LLMNext ==
    \/ GenerateContent
    \/ EngineGenerateContent
    \/ \E e \in AttemptEnv : ProviderAttempt(e.out, e.r)

SpecLLM == LLMInit /\ [][LLMNext]_vars

(***************************************************************************)
(* The adapters of a run that main started with or without --cost-limit:   *)
(* main stores the argument on the orchestrator, the orchestrator copies   *)
(* it to each executor, the executor constructs the engine, the engine     *)
(* constructs the adapter from the provider config                         *)
(***************************************************************************)
\* the values of args.cost_limit
CostLimitOverrides == {NoOverride} \cup (0..MaxCostLimit)

\* the LLMConfig _create_llm_integration builds in a run whose executor holds
\* `override` in executor.cost_limit: the engine is constructed with the debug
\* flag alone and reads every field from the provider config
CreateLLMConfig(provider_config, override) ==
    [max_retries |-> provider_config.max_retries,
     cost_limit_usd |-> provider_config.cost_limit_usd]

BudgetInit ==
    /\ cost_limit \in CostLimitOverrides
    /\ caller = "engine"
    /\ \E provider_config \in LLMConfigs :
          config = CreateLLMConfig(provider_config, cost_limit)
    /\ usage_tracker = NewUsageTracker
    /\ adapters = 0
    /\ calls = 0
    /\ llm_pc = "idle"
    /\ attempt = 0
    /\ attempt_log = <<>>
    /\ sleeps = <<>>
    /\ usage_before = NewUsageTracker
    /\ llm_result = NoResult
    /\ run_cost = 0
    /\ orch = "mvp"
    /\ context = [mode |-> "autonomous", compliance_framework |-> FALSE,
                  architecture_impact |-> FALSE]
    /\ dry_run = FALSE
    /\ workflow_steps = InitializeWorkflowSteps("mvp", MaxCalls)
    /\ gate_config = [n \in {} |-> "required"]
    /\ pc = "start"
    /\ Untouched
    /\ NoEngine
    /\ NoContext
    /\ request = DefaultRequest
    /\ prompt = NoPrompt
    /\ exit_code = NotExited
    /\ selection = NoSelection

BudgetNext ==
    \/ EngineGenerateContent
    \/ \E e \in AttemptEnv : ProviderAttempt(e.out, e.r)

SpecBudget == BudgetInit /\ [][BudgetNext]_vars

(***************************************************************************)
(* One generation of a step: _execute_with_ai_agent calls the engine, the  *)
(* engine calls generate_content of a new adapter, the adapter validates   *)
(* the provider's answer against the request's criteria, the engine        *)
(* post-processes the returned content and the executor writes the file.   *)
(* The provider answers every request (its failures are SpecLLM's).        *)
(***************************************************************************)
CriteriaLists == UNION {[1..k -> Criteria] : k \in 0..MaxCriteria}

EngInit ==
    /\ caller = "engine"
    /\ config \in {c \in LLMConfigs : /\ c.max_retries = MaxRetries
                                      /\ c.cost_limit_usd = MaxCostLimit}
    /\ usage_tracker = NewUsageTracker
    /\ adapters = 0
    /\ calls = 0
    /\ llm_pc = "idle"
    /\ attempt = 0
    /\ attempt_log = <<>>
    /\ sleeps = <<>>
    /\ usage_before = NewUsageTracker
    /\ llm_result = NoResult
    /\ run_cost = 0
    /\ criteria \in CriteriaLists
    /\ content \in Texts(MaxContent)
    /\ llm_response = ProviderResponse(<<>>)
    /\ eng_pc = "start"
    /\ final_content = <<>>
    /\ output = NoOutput
    /\ orch = "mvp"
    /\ context = [mode |-> "autonomous", compliance_framework |-> FALSE,
                  architecture_impact |-> FALSE]
    /\ dry_run = FALSE
    /\ workflow_steps = InitializeWorkflowSteps("mvp", MaxCalls)
    /\ gate_config = [n \in {} |-> "required"]
    /\ pc = "start"
    /\ Untouched
    /\ NoContext
    /\ NoPromptYet

\* ContentGenerationEngine.generate_content up to the adapter's retry loop
EngineRequest ==
    /\ eng_pc = "start"
    /\ adapters' = adapters + 1
    /\ EnterGenerateContent(NewUsageTracker)
    /\ eng_pc' = "adapter"
    /\ UNCHANGED <<caller, config, run_cost>>
    /\ selection' = SelectLLMForContentType(request.content_type, ConfigKeys)
    /\ prompt' = CreateSpecializedPrompt(request)
    /\ UNCHANGED request
    /\ UNCHANGED main_vars
    /\ UNCHANGED <<criteria, content, llm_response, final_content, output>>
    /\ UNCHANGED run_vars
    /\ UNCHANGED man_vars

\* how the attempt on the answer t ends under the criteria cs
ValidatedOutcome(cs, t) ==
    IF ValidationRaises(cs, t) THEN "validation_raised" ELSE "ok"

\* one pass through the try block of generate_content with the provider's
\* answer validated; on return, the rest of the engine's generate_content
EngineAttempt ==
    /\ eng_pc = "adapter"
    /\ AttemptStep(ValidatedOutcome(criteria, content), NoResponse)
    /\ IF ValidatedOutcome(criteria, content) = "ok"
       THEN /\ llm_response' = ValidateResponse(ProviderResponse(content),
                                                criteria)
            /\ final_content' = PostProcess(llm_response'.content)
            /\ eng_pc' = "generated"
       ELSE /\ llm_response' = ProviderResponse(content)
            /\ final_content' = final_content
            /\ eng_pc' = IF llm_pc' = "idle" THEN "failed" ELSE "adapter"
    /\ UNCHANGED <<criteria, content, output>>
    /\ UNCHANGED run_vars
    /\ UNCHANGED man_vars
    /\ UNCHANGED prompt_vars
    /\ UNCHANGED main_vars

\* _execute_with_ai_agent after the engine: write the content to the primary
\* output file, or fall back to the instruction file when the engine raised
ExecutorWrite ==
    /\ eng_pc \in {"generated", "failed"}
    /\ IF eng_pc = "generated"
       THEN /\ output' = [file |-> "primary", content |-> final_content]
            /\ eng_pc' = "written"
       ELSE /\ output' = [file |-> "status", content |-> <<>>]
            /\ eng_pc' = "fallback"
    /\ UNCHANGED <<criteria, content, llm_response, final_content>>
    /\ UNCHANGED llm_vars
    /\ UNCHANGED run_vars
    /\ UNCHANGED man_vars
    /\ UNCHANGED prompt_vars
    /\ UNCHANGED main_vars

EngNext == EngineRequest \/ EngineAttempt \/ ExecutorWrite

SpecEngine == EngInit /\ [][EngNext]_vars

(***************************************************************************)
(* Loading the catalog: the constructor reads numbered_sequence and        *)
(* dependency_chain from the config file and builds the steps.             *)
(***************************************************************************)
\* the dependency chains a config file may hold for a sequence of n entries:
\* per step number a list of step numbers, n + 1 standing for a number that
\* is no step of the sequence
DependencyChains(n) == [1..n -> SUBSET (1..(n + 1))]

\* dependencies.get(step_num, [])
StepDependencies(chain, i) == IF i \in DOMAIN chain THEN chain[i] ELSE {}

\* _initialize_workflow_steps with the dependencies of each step
LoadCatalog(o, n, chain) ==
    [i \in 1..n |->
        [number |-> InitializeWorkflowSteps(o, n)[i].number,
         gate_name |-> InitializeWorkflowSteps(o, n)[i].gate_name,
         compliance_impact |-> InitializeWorkflowSteps(o, n)[i].compliance_impact,
         dependencies |-> StepDependencies(chain, i)]]

CatalogInit ==
    /\ orch \in Orchestrators
    /\ context = [mode |-> "autonomous", compliance_framework |-> FALSE,
                  architecture_impact |-> FALSE]
    /\ dry_run = FALSE
    /\ workflow_steps = <<>>
    /\ gate_config = [n \in {} |-> "required"]
    /\ pc = "load"
    /\ Untouched
    /\ NoAdapter
    /\ NoEngine
    /\ NoContext
    /\ NoPromptYet

\* WorkflowOrchestrator.__init__ / EnterpriseWorkflowOrchestrator.__init__:
\* self.workflow_steps = self._initialize_workflow_steps()
InitializeCatalog ==
    /\ pc = "load"
    /\ \E n \in 1..MaxLoaded : \E chain \in DependencyChains(n) :
          workflow_steps' = LoadCatalog(orch, n, chain)
    /\ pc' = "loaded"
    /\ UNCHANGED <<orch, context, dry_run, gate_config, plan, idx, outcome,
                   returned, last_input, confirm_reads, gate_prompted,
                   gen_started, llm_calls, artifacts, manifest, step_results>>
    /\ UNCHANGED llm_vars
    /\ UNCHANGED eng_vars
    /\ UNCHANGED man_vars
    /\ UNCHANGED prompt_vars
    /\ UNCHANGED main_vars

CatalogNext == InitializeCatalog

SpecCatalog == CatalogInit /\ [][CatalogNext]_vars

(***************************************************************************)
(* Provider selection on its own: any content type, any set of specialized *)
(* configs in the provider config, one call                                *)
(***************************************************************************)
SelectInit ==
    /\ request \in {[DefaultRequest EXCEPT !.content_type = t] :
                       t \in SelectableTypes}
    /\ prompt = NoPrompt
    /\ exit_code = NotExited
    /\ cost_limit = NoOverride
    /\ selection = NoSelection
    /\ criteria = <<>>
    /\ content = <<>>
    /\ llm_response = ProviderResponse(<<>>)
    /\ eng_pc = "select"
    /\ final_content = <<>>
    /\ output = NoOutput
    /\ orch = "mvp"
    /\ context = [mode |-> "autonomous", compliance_framework |-> FALSE,
                  architecture_impact |-> FALSE]
    /\ dry_run = FALSE
    /\ workflow_steps = InitializeWorkflowSteps("mvp", 1)
    /\ gate_config = [n \in {} |-> "required"]
    /\ pc = "start"
    /\ Untouched
    /\ NoAdapter
    /\ NoContext

\* self._select_llm_for_content_type(request.content_type) in the engine's
\* generate_content, on the workflow_specific_configs the config file holds
SelectLLM ==
    /\ eng_pc = "select"
    /\ \E configs \in SUBSET ConfigKeys :
          selection' = SelectLLMForContentType(request.content_type, configs)
    /\ eng_pc' = "selected"
    /\ UNCHANGED <<request, prompt, criteria, content, llm_response,
                   final_content, output>>
    /\ UNCHANGED main_vars
    /\ UNCHANGED llm_vars
    /\ UNCHANGED run_vars
    /\ UNCHANGED man_vars

SelectNext == SelectLLM

SpecSelect == SelectInit /\ [][SelectNext]_vars

(***************************************************************************)
(* Prompt assembly on its own: any request, one call                       *)
(***************************************************************************)
PromptInit ==
    /\ request \in Requests
    /\ prompt = NoPrompt
    /\ exit_code = NotExited
    /\ cost_limit = NoOverride
    /\ selection = NoSelection
    /\ criteria = <<>>
    /\ content = <<>>
    /\ llm_response = ProviderResponse(<<>>)
    /\ eng_pc = "prompt"
    /\ final_content = <<>>
    /\ output = NoOutput
    /\ orch = "mvp"
    /\ context = [mode |-> "autonomous", compliance_framework |-> FALSE,
                  architecture_impact |-> FALSE]
    /\ dry_run = FALSE
    /\ workflow_steps = InitializeWorkflowSteps("mvp", 1)
    /\ gate_config = [n \in {} |-> "required"]
    /\ pc = "start"
    /\ Untouched
    /\ NoAdapter
    /\ NoContext

\* self._create_specialized_prompt(request) in the engine's generate_content
CreatePrompt ==
    /\ eng_pc = "prompt"
    /\ prompt' = CreateSpecializedPrompt(request)
    /\ eng_pc' = IF prompt'.raised THEN "failed" ELSE "prompted"
    /\ UNCHANGED <<request, selection, criteria, content, llm_response,
                   final_content, output>>
    /\ UNCHANGED main_vars
    /\ UNCHANGED llm_vars
    /\ UNCHANGED run_vars
    /\ UNCHANGED man_vars

PromptNext == CreatePrompt

SpecPrompt == PromptInit /\ [][PromptNext]_vars

(***************************************************************************)
(* The manifest on its own: one WorkflowContext whose lists grow and which *)
(* is saved to the feature-manifest.json of one feature directory, absent  *)
(* at first or left by an earlier run (whose entries are written 0).       *)
(***************************************************************************)
EarlierLists == {<<>>, <<0>>}

ManifestInit ==
    /\ manifest \in {EmptyManifest}
                     \cup {[exists |-> TRUE, execution_log |-> l,
                            generated_files |-> f] :
                              l \in EarlierLists, f \in EarlierLists}
    /\ wf_context = NewWorkflowContext
    /\ save_history = <<>>
    /\ orch = "mvp"
    /\ context = [mode |-> "autonomous", compliance_framework |-> FALSE,
                  architecture_impact |-> FALSE]
    /\ dry_run = FALSE
    /\ workflow_steps = InitializeWorkflowSteps("mvp", MaxSaves)
    /\ gate_config = [n \in {} |-> "required"]
    /\ pc = "generate"
    /\ plan = <<>>
    /\ idx = 0
    /\ outcome = "none"
    /\ returned = "none"
    /\ last_input = NoInput
    /\ confirm_reads = 0
    /\ gate_prompted = {}
    /\ gen_started = <<>>
    /\ llm_calls = 0
    /\ artifacts = {}
    /\ step_results = <<>>
    /\ NoAdapter
    /\ NoEngine
    /\ NoPromptYet

\* the run variables but the manifest
run_vars_but_manifest ==
    <<orch, context, dry_run, gate_config, workflow_steps, plan, pc, idx,
      outcome, returned, last_input, confirm_reads, gate_prompted, gen_started,
      llm_calls, artifacts, step_results>>

\* context.execution_log.append(...): the entries of a context are numbered
AppendLog ==
    /\ Len(wf_context.execution_log) < MaxLog
    /\ wf_context' = [wf_context EXCEPT !.execution_log =
                         Append(@, Len(@) + 1)]
    /\ UNCHANGED <<manifest, save_history>>
    /\ UNCHANGED <<run_vars_but_manifest, llm_vars, eng_vars, prompt_vars,
                   main_vars>>

\* context.generated_files.append(...)
AppendFile ==
    /\ Len(wf_context.generated_files) < MaxLog
    /\ wf_context' = [wf_context EXCEPT !.generated_files =
                         Append(@, Len(@) + 1)]
    /\ UNCHANGED <<manifest, save_history>>
    /\ UNCHANGED <<run_vars_but_manifest, llm_vars, eng_vars, prompt_vars,
                   main_vars>>

\* context.save_to_manifest()
SaveContext ==
    /\ Len(save_history) < MaxSaves
    /\ manifest' = SaveToManifest(manifest, wf_context.execution_log,
                                  wf_context.generated_files)
    /\ save_history' = Append(save_history,
                              [before |-> manifest, context |-> wf_context,
                               after |-> manifest'])
    /\ UNCHANGED wf_context
    /\ UNCHANGED <<run_vars_but_manifest, llm_vars, eng_vars, prompt_vars,
                   main_vars>>

ManifestNext == AppendLog \/ AppendFile \/ SaveContext

SpecManifest == ManifestInit /\ [][ManifestNext]_vars

(***************************************************************************)
(* Properties of the gate policy resolver (checked under SpecGate)         *)
(***************************************************************************)
PlanBuilt == Len(plan) = Len(workflow_steps) /\ pc # "plan" /\ pc # "start"

\* the gate table has the entry b for the gate name of step i
HasEntry(i, b) ==
    /\ workflow_steps[i].gate_name \in DOMAIN gate_config
    /\ gate_config[workflow_steps[i].gate_name] = b

\* the gate table has no entry for the gate name of step i
NoEntry(i) == workflow_steps[i].gate_name \notin DOMAIN gate_config

\* behavior tokens each orchestrator's resolver has a branch for
Recognized(o) ==
    IF o = "mvp"
    THEN {"required", "optional", "skip", "learn_from_history",
          "required_for_new_tech", "required_for_destructive"}
    ELSE {"required", "optional", "skip", "learn_from_history",
          "required_for_new_architecture", "required_for_compliance_changes",
          "required_for_production_changes", "required_with_approval_board"}

ConditionHolds(b, i) ==
    CASE b = "required_for_new_tech" -> FALSE
      [] b = "required_for_destructive" -> i = 7
      [] b = "required_for_new_architecture" -> context.architecture_impact
      [] b = "required_for_compliance_changes" ->
            context.compliance_framework /\ i \in {3, 4, 6, 7}
      [] b = "required_for_production_changes" -> i = 6

C2_ComplianceNeverSkip ==
    PlanBuilt =>
        \A i \in DOMAIN plan :
            (context.compliance_framework /\ workflow_steps[i].compliance_impact)
                => plan[i] # "skip"

\* C2 witness: a compliance-critical step whose table entry is skip, planned
\* under a compliance framework.
C2_Witness ==
    /\ PlanBuilt
    /\ context.compliance_framework
    /\ \E i \in DOMAIN plan :
          /\ workflow_steps[i].compliance_impact
          /\ HasEntry(i, "skip")
          /\ plan[i] = "required"

C4_UnknownResolvesRequired ==
    PlanBuilt =>
        \A i \in DOMAIN plan :
            (\/ NoEntry(i)
             \/ \E b \in Behaviors \ Recognized(orch) : HasEntry(i, b))
                => plan[i] = "required"

\* C4 witness: a plan with one step whose entry is an unrecognized string and
\* another step whose gate name the table lacks.
C4_Witness ==
    /\ PlanBuilt
    /\ \E i, j \in DOMAIN plan :
          /\ HasEntry(i, "no_such_behavior")
          /\ NoEntry(j)
          /\ plan[i] = "required"
          /\ plan[j] = "required"

\* C5: a learn_from_history entry resolves to required for every step, mode
\* and context, and no plan holds the decision learn_from_history.
C5_LearningResolvesRequired ==
    PlanBuilt =>
        \A i \in DOMAIN plan :
            /\ plan[i] # "learn_from_history"
            /\ HasEntry(i, "learn_from_history") => plan[i] = "required"

\* C5 witness: a plan built in learning mode over a learn_from_history entry.
C5_Witness ==
    /\ PlanBuilt
    /\ context.mode = "learning"
    /\ \E i \in DOMAIN plan :
          HasEntry(i, "learn_from_history") /\ plan[i] = "required"

(***************************************************************************)
(* Properties of a run (checked under Spec)                                *)
(***************************************************************************)
Range(f) == {f[k] : k \in DOMAIN f}

GatedDecisions == {"required", "approval_board_required"}

\* C6: in every mode a step whose decision is required or
\* approval_board_required has its document workflow invoked only after its
\* gate prompt has read an approving answer.
C6_GateBeforeGeneration ==
    /\ \A i \in Range(gen_started) :
          plan[i] \in GatedDecisions => i \in gate_prompted
    /\ (pc = "generate" /\ plan[idx] \in GatedDecisions) =>
          /\ last_input.at = "gate"
          /\ last_input.step = idx
          /\ last_input.response \in {"y", "s"}

\* C6 witness: an autonomous MVP run, which asked no confirmation, has
\* invoked the document workflow of a required step after prompting its gate.
C6_Witness ==
    /\ context.mode = "autonomous"
    /\ confirm_reads = 0
    /\ \E i \in Range(gen_started) :
          plan[i] = "required" /\ i \in gate_prompted

\* C7: a negative or empty answer at the gate of step k ends the run in
\* Failed; the document workflows invoked are exactly those of the steps
\* before k, no gate after k is prompted, and the artifacts and the manifest
\* are those of the steps before k, all still there.
C7_RejectedGateHaltsRun ==
    (last_input.at = "gate" /\ last_input.response \in {"n", ""}) =>
        LET k == last_input.step IN
        /\ pc = "done"
        /\ outcome = "Failed"
        /\ returned = "False"
        /\ gen_started = [j \in 1..(k - 1) |-> j]
        /\ gate_prompted \subseteq 1..k
        /\ \A f \in artifacts : f[1] < k
        /\ orch = "mvp" =>
              /\ manifest.execution_log = [j \in 1..(k - 1) |-> j]
              /\ \A j \in 1..(k - 1) : <<j, "status">> \in artifacts
                                        /\ <<j, "status">> \in Range(manifest.generated_files)

\* C7 witness: the gate of step 2 of a three-step MVP run read an empty
\* answer after step 1 was generated and recorded.
C7_Witness ==
    /\ orch = "mvp"
    /\ Len(plan) = 3
    /\ last_input = [at |-> "gate", step |-> 2, response |-> ""]
    /\ manifest.execution_log = <<1>>
    /\ outcome = "Failed"

\* C8: a step whose decision is skip or optional never has its gate prompt
\* read, and once the loop has reached it its document workflow is invoked.
C8_UngatedStepsRun ==
    \A i \in DOMAIN plan :
        plan[i] \in {"skip", "optional"} =>
            /\ i \notin gate_prompted
            /\ (idx = i /\ pc # "generate") => i \in Range(gen_started)
            /\ idx > i => i \in Range(gen_started)

\* C8 witness: a run has invoked the document workflow of a skip step and of
\* an optional step without reading any gate prompt.
C8_Witness ==
    /\ gate_prompted = {}
    /\ \E i, j \in Range(gen_started) : plan[i] = "skip" /\ plan[j] = "optional"

\* C9: a dry run reads no confirmation and no gate prompt, issues no provider
\* call, writes no artifact and no manifest, invokes no document workflow, and
\* ends right after the plan is built, returning True.
C9_DryRunExecutesNothing ==
    dry_run =>
        /\ pc \in {"start", "done"}
        /\ last_input = NoInput
        /\ confirm_reads = 0
        /\ gate_prompted = {}
        /\ gen_started = <<>>
        /\ llm_calls = 0
        /\ artifacts = {}
        /\ manifest = EmptyManifest
        /\ pc = "done" => /\ outcome = "DryRunComplete"
                          /\ returned = "True"
                          /\ Len(plan) = Len(workflow_steps)

\* C9 witness: a guided dry run has ended.
C9_Witness ==
    /\ dry_run
    /\ context.mode = "guided"
    /\ pc = "done"
    /\ outcome = "DryRunComplete"

\* has the step loop been entered
Running == idx >= 1

\* C10 as stated: in a non-dry run of either orchestrator, guided and learning
\* mode enter the step loop only after an accepted confirmation, a declined
\* confirmation ends the run with no step executed, and autonomous mode reads
\* no confirmation.
C10_ConfirmationByMode ==
    ~dry_run =>
        /\ context.mode = "autonomous" => confirm_reads = 0 /\ pc # "confirm"
        /\ (context.mode # "autonomous" /\ Running) => confirm_reads = 1
        /\ outcome = "Cancelled" => gen_started = <<>> /\ gate_prompted = {}

\* the steps 1..n in catalog order
FirstSteps(n) == [i \in 1..n |-> i]

\* C11: the step loop takes the steps in catalog order: the document workflows
\* invoked so far are those of steps 1, 2, ..., each once; while step k is at
\* its gate or at its generation, every earlier step has returned success and
\* had its document workflow invoked, and no later step has been touched.
C11_CatalogOrder ==
    /\ gen_started = FirstSteps(Len(gen_started))
    /\ [i \in DOMAIN step_results |-> step_results[i].number]
          = FirstSteps(Len(step_results))
    /\ pc \in {"gate", "generate"} =>
          /\ idx \in DOMAIN plan
          /\ Len(step_results) = idx - 1
          /\ gen_started = FirstSteps(idx - 1)
          /\ \A i \in 1..(idx - 1) : step_results[i].success
          /\ \A i \in gate_prompted : i <= idx

\* C11 witness: the third step of a catalog is at its generation after the
\* first two steps succeeded, the second of them behind a gate.
C11_Witness ==
    /\ pc = "generate"
    /\ idx = 3
    /\ gen_started = <<1, 2>>
    /\ 2 \in gate_prompted
    /\ step_results[1].success /\ step_results[2].success

\* the files of step i among a collection of files
FilesOf(i, files) == {f \in files : f[1] = i}

\* step i has a file on disk, and the persisted manifest holds the execution
\* log entry of step i and the path of every file written for it
Committed(i) ==
    /\ FilesOf(i, artifacts) # {}
    /\ manifest.exists
    /\ i \in Range(manifest.execution_log)
    /\ FilesOf(i, artifacts) \subseteq Range(manifest.generated_files)

\* C12 as stated: every step that has completed is committed (artifact
\* written, manifest with its log entry and file paths persisted) from the
\* moment the loop leaves it, so before the next step's gate or generation
\* begins; while step k is at its gate or generation the persisted manifest
\* records every step before k.
C12_CommittedBeforeNextStep ==
    /\ \A j \in DOMAIN step_results :
          step_results[j].success => Committed(step_results[j].number)
    /\ (pc \in {"gate", "generate"} /\ idx \in DOMAIN plan) =>
          \A i \in 1..(idx - 1) : Committed(i)

\* C13: a run that has ended is Succeeded exactly when the loop iterated every
\* catalog step, each had its document workflow invoked and each returned
\* success; a step that returns failure or raises is the last step the loop
\* touched, and the run is then ended in Failed.
C13_SucceededIffAllStepsOk ==
    /\ (pc = "done" /\ ~dry_run /\ outcome # "Cancelled") =>
          (outcome = "Succeeded" <=>
              /\ Len(step_results) = Len(workflow_steps)
              /\ gen_started = FirstSteps(Len(workflow_steps))
              /\ \A j \in DOMAIN step_results : step_results[j].success)
    /\ outcome = "Succeeded" => pc = "done" /\ returned = "True"
    /\ \A j \in DOMAIN step_results :
          ~step_results[j].success =>
              /\ j = Len(step_results)
              /\ pc = "done"
              /\ outcome = "Failed"
              /\ returned = "False"
              /\ \A i \in Range(gen_started) \cup gate_prompted :
                    i <= step_results[j].number

\* C13 witness: the second step of a three-step catalog failed in its document
\* workflow and the run ended in Failed with step 3 untouched.
C13_Witness ==
    /\ Len(plan) = 3
    /\ Len(step_results) = 2
    /\ step_results[1].success
    /\ ~step_results[2].success
    /\ gen_started = <<1, 2>>
    /\ outcome = "Failed"

\* C13 second witness: a three-step run ended in Succeeded.
C13_WitnessSucceeded ==
    /\ Len(plan) = 3
    /\ outcome = "Succeeded"
    /\ gen_started = <<1, 2, 3>>

\* C14 as stated: a step whose generation call raised a provider error (the
\* adapter's retries exhausted) is reported failed: it is the last step the
\* loop touched, the run is ended in Failed, and the persisted manifest has no
\* execution-log entry of the step.
C14_GenerationErrorFailsRun ==
    \A j \in DOMAIN step_results :
        step_results[j].generation = "provider_error" =>
            /\ ~step_results[j].success
            /\ j = Len(step_results)
            /\ pc = "done"
            /\ outcome = "Failed"
            /\ step_results[j].number \notin Range(manifest.execution_log)

(***************************************************************************)
(* Properties of the provider adapter (checked under SpecLLM)              *)
(***************************************************************************)
\* the budget test of the current call has just passed
BudgetCheckPassed == llm_pc = "attempt" /\ attempt_log = <<>>

\* C15 as stated: the accumulated cost a call's budget test reads is the
\* summed cost of the responses that providers returned to earlier calls of
\* the run, so no request is sent once that sum has reached cost_limit_usd.
C15_UsageSharedAcrossRun ==
    /\ BudgetCheckPassed =>
          /\ usage_before.total_cost_usd = run_cost
          /\ run_cost < config.cost_limit_usd
    /\ llm_result.kind = "rejected" =>
          usage_before.total_cost_usd = run_cost

\* C16: a generate_content call that finds the accumulated cost at or above
\* cost_limit_usd ends rejected with no attempt made, no wait and both usage
\* totals as it found them; no other call ends rejected.
C16_RejectedBeforeAnyRequest ==
    /\ (calls > 0 /\ usage_before.total_cost_usd >= config.cost_limit_usd) =>
          /\ llm_pc = "idle"
          /\ llm_result.kind = "rejected"
    /\ llm_result.kind = "rejected" =>
          /\ usage_before.total_cost_usd >= config.cost_limit_usd
          /\ attempt_log = <<>>
          /\ sleeps = <<>>
          /\ usage_tracker = usage_before

\* C16 witness: a client's later call is rejected on an adapter whose earlier
\* responses brought the accumulated cost exactly to a positive limit.
C16_Witness ==
    /\ caller = "client"
    /\ calls >= 2
    /\ llm_result.kind = "rejected"
    /\ usage_before.total_cost_usd = config.cost_limit_usd
    /\ usage_before.total_cost_usd > 0
    /\ usage_before.total_tokens > 0

DoublingDelays(n) == [k \in 1..n |-> 2 ^ (k - 1)]

\* a call has ended by re-raising after max_retries failed attempts, with the
\* doubling waits between the attempts and none after the last, and the
\* exception raised is that of the last attempt
RaisedAfterBackoff ==
    /\ Len(attempt_log) = config.max_retries
    /\ \A k \in DOMAIN attempt_log : attempt_log[k] # "ok"
    /\ sleeps = DoublingDelays(config.max_retries - 1)
    /\ llm_result.attempt = config.max_retries - 1
    /\ llm_result.outcome = attempt_log[config.max_retries]

\* C18 as stated: a call whose every attempt failed has waited 1, 2, 4, ...
\* between the attempts and not after the last, raises the last attempt's
\* error, and leaves both usage totals as the call found them.
C18_AllFailedLeavesUsage ==
    llm_result.kind = "raised" =>
        /\ RaisedAfterBackoff
        /\ usage_tracker = usage_before

\* C19 as stated: attempts are made only after the budget test has passed; a
\* call that returns the response r leaves each usage total exactly r's usage
\* above what the call found, and while the attempts of a call keep failing,
\* and when the call ends by raising, the totals are as the call found them.
C19_UsageRecordedOncePerCall ==
    /\ attempt_log # <<>> =>
          usage_before.total_cost_usd < config.cost_limit_usd
    /\ llm_result.kind = "response" =>
          usage_tracker = RecordUsage(usage_before, llm_result.response)
    /\ (llm_pc = "attempt" \/ llm_result.kind = "raised") =>
          usage_tracker = usage_before

\* C20: the token and cost totals of an adapter, as kept by its usage tracker
\* and as get_usage_stats reports them, are never negative, and no step of a
\* generate_content call on the adapter (an attempt that answers, fails or
\* raises, a rejection) lowers any of them.
C20_UsageNeverDecreases ==
    /\ [](/\ usage_tracker.total_tokens >= 0
          /\ usage_tracker.total_cost_usd >= 0
          /\ GetUsageStats(usage_tracker, config).total_tokens >= 0
          /\ GetUsageStats(usage_tracker, config).total_cost_usd >= 0)
    /\ [][adapters' = adapters =>
            /\ usage_tracker'.total_tokens >= usage_tracker.total_tokens
            /\ usage_tracker'.total_cost_usd >= usage_tracker.total_cost_usd
            /\ GetUsageStats(usage_tracker', config').total_tokens
                  >= GetUsageStats(usage_tracker, config).total_tokens
            /\ GetUsageStats(usage_tracker', config').total_cost_usd
                  >= GetUsageStats(usage_tracker, config).total_cost_usd]_vars

\* C20 witness: a client's third call on one adapter was rejected after two
\* calls that added tokens and cost, and get_usage_stats reports a cost.
C20_Witness ==
    /\ caller = "client"
    /\ calls = 3
    /\ llm_result.kind = "rejected"
    /\ usage_tracker.total_tokens > 1
    /\ usage_tracker.total_cost_usd > 1
    /\ GetUsageStats(usage_tracker, config).total_cost_usd > 0

(***************************************************************************)
(* Properties of one generation (checked under SpecEngine)                 *)
(***************************************************************************)
\* the criteria of the request that the answer fails, in order
FailingCriteria ==
    SelectSeq(criteria, LAMBDA c :
        \/ LowerKey(c.key) = "not_empty" /\ StripText(content) = <<>>
        \/ LowerKey(c.key) = "contains_markdown"
              /\ \A k \in DOMAIN content : content[k] # "#"
        \/ c.key = "min_length" /\ Len(content) < c.n
        \/ c.key = "contains"
              /\ ~Contains(LowerText(content), LowerText(c.text)))

IsPrefix(p, q) == Len(p) <= Len(q) /\ SubSeq(q, 1, Len(p)) = p

\* the part of q after its first n elements
Suffix(q, n) == SubSeq(q, n + 1, Len(q))

\* C22 as stated: when a context is saved, gets exactly one more log entry and
\* is saved again, the persisted execution_log after the second save is the
\* persisted log after the first save followed by the one new entry, and the
\* persisted generated_files are those after the first save followed by only
\* the paths the context got in between.
C22_SecondSaveAddsOnlyNewEntry ==
    \A k \in 1..(Len(save_history) - 1) :
        LET first == save_history[k]
            second == save_history[k + 1]
        IN  Len(second.context.execution_log)
                = Len(first.context.execution_log) + 1
            =>
            /\ second.after.execution_log =
                  first.after.execution_log
                  \o Suffix(second.context.execution_log,
                            Len(first.context.execution_log))
            /\ second.after.generated_files =
                  first.after.generated_files
                  \o Suffix(second.context.generated_files,
                            Len(first.context.generated_files))

\* C23: every save leaves a manifest that exists and whose execution_log and
\* generated_files start with the lists persisted before the save, also when
\* no manifest existed before; nothing but a save writes the manifest.
C23_ManifestAppendOnly ==
    /\ \A k \in DOMAIN save_history :
          /\ save_history[k].after.exists
          /\ IsPrefix(save_history[k].before.execution_log,
                      save_history[k].after.execution_log)
          /\ IsPrefix(save_history[k].before.generated_files,
                      save_history[k].after.generated_files)
    /\ \A k \in 1..(Len(save_history) - 1) :
          save_history[k + 1].before = save_history[k].after
    /\ save_history # <<>> =>
          manifest = save_history[Len(save_history)].after

\* C23 witness: a first save created the manifest of a feature directory that
\* had none, and a second save of the grown context extended both lists.
C23_Witness ==
    /\ Len(save_history) = 2
    /\ ~save_history[1].before.exists
    /\ save_history[1].after.execution_log # <<>>
    /\ Len(save_history[2].after.execution_log)
          > Len(save_history[2].before.execution_log)
    /\ Len(save_history[2].after.generated_files)
          > Len(save_history[2].before.generated_files)

(***************************************************************************)
(* Properties of failing steps (checked under Spec)                        *)
(***************************************************************************)
\* the step at plan position i generated its content through the provider but
\* its execution log entry never reached the manifest
GeneratedButNotSaved(k) ==
    /\ step_results[k].generation = "ok"
    /\ step_results[k].number \notin Range(manifest.execution_log)

\* C24: a step whose generation succeeded and whose manifest write failed is
\* reported as failed, is the last step the run executed, and the run has
\* ended in Failed.
C24_ManifestFailureFailsStep ==
    \A k \in DOMAIN step_results :
        GeneratedButNotSaved(k) =>
            /\ ~step_results[k].success
            /\ k = Len(step_results)
            /\ gen_started[Len(gen_started)] = step_results[k].number
            /\ pc = "done"
            /\ outcome = "Failed"
            /\ returned = "False"

\* C24 witness: the second step of a plan of three generated its files, its
\* manifest write failed, and the run ended without the third step
C24_Witness ==
    /\ Len(plan) = MaxSteps
    /\ \E k \in DOMAIN step_results :
          /\ GeneratedButNotSaved(k)
          /\ step_results[k].number = 2
          /\ <<2, "primary">> \in artifacts
    /\ 1 \in Range(manifest.execution_log)
    /\ pc = "done"

(***************************************************************************)
(* Properties of interrupted runs (checked under SpecInterrupt)            *)
(***************************************************************************)
\* the operator interrupted the run
Interrupted ==
    \/ last_input.response = "KeyboardInterrupt"
    \/ returned = "KeyboardInterrupt"

\* the steps whose document workflow returned True
CompletedSteps ==
    {step_results[k].number : k \in {j \in DOMAIN step_results :
                                        step_results[j].success}}

\* C25 as stated: an interrupted run has ended in Cancelled or Failed, which
\* the orchestrator reports by returning False; the manifest records no step
\* but the completed ones, and no step started after the interrupted one.
C25_InterruptEndsRunCleanly ==
    Interrupted =>
        /\ pc = "done"
        /\ outcome \in {"Cancelled", "Failed"}
        /\ returned = "False"
        /\ \A i \in 1..Len(plan) :
              i \in Range(manifest.execution_log) => i \in CompletedSteps
        /\ \A k \in DOMAIN gen_started : gen_started[k] <= idx

(***************************************************************************)
(* Properties of unreadable workflow documents (checked under Spec)        *)
(***************************************************************************)
\* the document workflow of step_results[k] was entered and ended before any
\* generation call: its workflow document was missing or could not be read
DocumentUnreadable(k) ==
    /\ orch = "mvp"
    /\ step_results[k].number \in Range(gen_started)
    /\ step_results[k].generation = "none"

\* C26 as stated: a step whose workflow document cannot be read is not failed
\* for that: its generation still writes the step's output, the step is
\* reported as succeeded and the run does not end in Failed at that step.
C26_UnreadableDocumentNotFatal ==
    \A k \in DOMAIN step_results :
        DocumentUnreadable(k) =>
            /\ step_results[k].success
            /\ FilesOf(step_results[k].number, artifacts) # {}
            /\ ~(k = Len(step_results) /\ outcome = "Failed")

(***************************************************************************)
(* Properties of prompt assembly (checked under SpecPrompt)                *)
(***************************************************************************)
\* does the text t occur in the parts ps under one of the kinds
PartsWith(ps, kinds) == {k \in DOMAIN ps : ps[k].kind \in kinds}

\* C27: prompt assembly for a request whose workflow document does not exist
\* raises nothing and returns a prompt that is not empty, carries the
\* document's file name and has no part embedding a document body.
C27_MissingDocumentPromptNamesIt ==
    (eng_pc # "prompt" /\ ~request.doc_exists) =>
        /\ eng_pc = "prompted"
        /\ ~prompt.raised
        /\ prompt.parts # <<>>
        /\ \E k \in PartsWith(prompt.parts, {"title", "please_execute"}) :
              request.doc_name \in Range(prompt.parts[k].text)
        /\ PartsWith(prompt.parts, {"body", "content_heading"}) = {}

\* C27 witness: the prompt of a request with project data whose document does
\* not exist has been assembled
C27_Witness ==
    /\ eng_pc = "prompted"
    /\ ~request.doc_exists
    /\ request.project_data
    /\ PartsWith(prompt.parts, {"please_execute"}) # {}
    /\ PartsWith(prompt.parts, {"project_data"}) # {}

(***************************************************************************)
(* Properties of configuration errors (checked under Spec)                 *)
(***************************************************************************)
\* the engine of step_results[k] could not be built or raised before any
\* provider request: the case of a missing or malformed provider config
EngineConfigError(k) == step_results[k].generation = "engine_error"

\* C28 as stated, for the provider config: a run that meets a provider config
\* error has prompted no gate, has written no artifact and no manifest entry
\* for the step that met it, and does not carry on: it is over and not
\* Succeeded.
C28_ConfigErrorAbortsBeforeSteps ==
    \A k \in DOMAIN step_results :
        EngineConfigError(k) =>
            /\ gate_prompted = {}
            /\ FilesOf(step_results[k].number, artifacts) = {}
            /\ step_results[k].number \notin Range(manifest.execution_log)
            /\ ~step_results[k].success
            /\ pc = "done"
            /\ outcome = "Failed"

C30_ExitCodeReportsOutcome ==
    pc = "exited" =>
        /\ exit_code = 0 <=> outcome \in {"Succeeded", "DryRunComplete"}
        /\ (\/ outcome \in {"Failed", "Cancelled"}
            \/ Interrupted) => exit_code > 0

\* C30 witness: a process has exited with 0 after a run of several steps that
\* succeeded (C30_WitnessFailed: with another status after a rejected gate)
C30_Witness ==
    /\ pc = "exited"
    /\ exit_code = 0
    /\ outcome = "Succeeded"
    /\ Len(step_results) > 1

C30_WitnessFailed ==
    /\ pc = "exited"
    /\ exit_code > 0
    /\ outcome = "Failed"
    /\ gate_prompted # {}

(***************************************************************************)
(* Properties of the answers at the MVP gate (checked under Spec)          *)
(***************************************************************************)
\* the last input read was the answer `a` at a gate of the MVP orchestrator
LastGateAnswer(a) ==
    /\ orch = "mvp"
    /\ last_input.at = "gate"
    /\ last_input.response = a

\* C36 as stated: after the answer 's' at the gate of a step, that step's
\* generation is not executed and nothing is recorded for it (no result, no
\* artifact, no manifest entry), and the run has gone on to the next catalog
\* step or, after the last step, has ended.
C36_SkipAnswerSkipsStep ==
    LastGateAnswer("s") =>
        LET i == last_input.step IN
        /\ i \notin Range(gen_started)
        /\ \A k \in DOMAIN step_results : step_results[k].number # i
        /\ FilesOf(i, artifacts) = {}
        /\ i \notin Range(manifest.execution_log)
        /\ \/ idx = i + 1
           \/ i = Len(plan) /\ pc = "done" /\ outcome = "Succeeded"

\* the answers the MVP gate does not act on: the request for details and any
\* text that is none of y, n, s and the empty answer
UnrecognizedAnswers ==
    {GateResponse("mvp", r) : r \in Responses} \ {"y", "n", "s", ""}

\* C37 as stated: after '?' or an unrecognized text at the gate of a step the
\* gate of that step is still pending and the run state is as before: the
\* step has not been executed, no result is recorded and the run has not ended.
C37_HelpAnswerAsksAgain ==
    \A a \in UnrecognizedAnswers :
        LastGateAnswer(a) =>
            /\ pc = "gate"
            /\ idx = last_input.step
            /\ outcome = "none"
            /\ returned = "none"
            /\ idx \notin Range(gen_started)
            /\ \A k \in DOMAIN step_results : step_results[k].number # idx

(***************************************************************************)
(* Termination of a run (checked under SpecLive)                           *)
(***************************************************************************)
\* the terminal states of a run (Cancelled: the confirmation was declined)
TerminalOutcomes == {"DryRunComplete", "Succeeded", "Failed", "Cancelled"}

\* C35: a run whose prompts are answered and whose generation calls end
\* reaches the end of execute_workflow; it ends with exactly one of the
\* terminal outcomes, which it does not have before; and once it has ended
\* nothing happens any more: no step, no prompt, no provider call.
C35_RunTerminates ==
    /\ <>(pc = "done")
    /\ [](pc = "done" <=> outcome \in TerminalOutcomes)
    /\ [][pc # "done"]_vars

\* C35 witness: a run of a full catalog has ended Succeeded, the gate of its
\* last step approved at the prompt
C35_Witness ==
    /\ pc = "done"
    /\ outcome = "Succeeded"
    /\ Len(gen_started) = MaxSteps
    /\ LastGateAnswer("y")
    /\ last_input.step = MaxSteps

(***************************************************************************)
(* Properties of the project data of a step's request (checked under Spec) *)
(***************************************************************************)
\* C31 as stated: the project data of the generation request of a step holds
\* every field the run has accumulated before that step (one per step that
\* completed before it).
C31_RequestCarriesAccumulatedData ==
    \A k \in DOMAIN step_results :
        step_results[k].generation # "none" =>
            AccumulatedData(SubSeq(step_results, 1, k - 1))
                \subseteq step_results[k].project_data

(***************************************************************************)
(* Properties of a loaded catalog (checked under SpecCatalog)              *)
(***************************************************************************)
\* C32 as stated: in a loaded catalog the step numbers increase in catalog
\* order, so they are pairwise distinct, and every dependency of a step is
\* the number of a step at an earlier position.
C32_DependenciesReferEarlierSteps ==
    pc = "loaded" =>
        /\ \A i, j \in DOMAIN workflow_steps :
              i < j => workflow_steps[i].number < workflow_steps[j].number
        /\ \A i \in DOMAIN workflow_steps :
              \A d \in workflow_steps[i].dependencies :
                  \E j \in 1..(i - 1) : workflow_steps[j].number = d

(***************************************************************************)
(* Properties of provider selection (checked under SpecSelect)             *)
(***************************************************************************)
\* has the content type t a specialized config of its own among configs
HasOwnConfig(t, configs) ==
    t \in DOMAIN content_type_mapping /\ content_type_mapping[t] \in configs

\* C33 as stated: the selection for a content type is the adapter of that
\* type's own specialized config when the config holds one, and the default
\* adapter in every other case.
C33_OwnConfigOrDefault ==
    eng_pc = "selected" =>
        IF HasOwnConfig(request.content_type, selection.configs)
        THEN /\ selection.kind = "specialized"
             /\ selection.config_key = content_type_mapping[request.content_type]
        ELSE selection.kind = "default"

(***************************************************************************)
(* Properties of the design decisions prompt (checked under SpecPrompt)    *)
(***************************************************************************)
\* the request is one for design decisions whose project data holds a
\* technology selection, and its prompt has been assembled
SelectionPrompted ==
    /\ eng_pc = "prompted"
    /\ request.content_type = "design_decisions"
    /\ request.project_data
    /\ request.tech_stack # ""

\* the parts of the prompt that tell the model to run a questionnaire
QuestionnaireParts ==
    {k \in DOMAIN prompt.parts :
        "questionnaire" \in Range(prompt.parts[k].text)}

\* C34 as stated: the prompt for design decisions with a populated technology
\* selection carries the selection verbatim, in its last part too, and has no
\* part that tells the model to run a questionnaire, the embedded body of the
\* workflow document included.
C34_SelectionReplacesQuestionnaire ==
    SelectionPrompted =>
        /\ \E k \in DOMAIN prompt.parts :
              request.tech_stack \in Range(prompt.parts[k].text)
        /\ prompt.parts[Len(prompt.parts)].kind = "final_override"
        /\ request.tech_stack \in Range(prompt.parts[Len(prompt.parts)].text)
        /\ QuestionnaireParts = {}

(***************************************************************************)
(* Properties of the cost-limit override (checked under SpecBudget)        *)
(***************************************************************************)
\* C38 as stated: in a run started with a cost-limit override, a call is
\* turned away by the budget test exactly when the cost the adapter had
\* accumulated before the call has reached the override value.
C38_BudgetCheckUsesOverride ==
    (cost_limit # NoOverride /\ calls > 0) =>
        (llm_result.kind = "rejected"
            <=> usage_before.total_cost_usd >= cost_limit)

(***************************************************************************)
(* Properties of the end of a generate_content call (checked under         *)
(* SpecLLM)                                                                *)
(***************************************************************************)
\* C39 as stated: a generate_content call that has passed the budget test
\* and has ended, ended by returning a response or by raising; it never
\* returned without a response, whatever max_retries >= 0 is configured and
\* whatever the provider did.
C39_CallReturnsResponseOrRaises ==
    (calls > 0 /\ llm_pc = "idle" /\ llm_result.kind # "rejected") =>
        llm_result.kind \in {"response", "raised"}

\* C40 as stated: on one adapter a provider request is sent only in a call
\* the adapter entered with an accumulated cost strictly below
\* cost_limit_usd, and when a call has returned a response the accumulated
\* cost exceeds cost_limit_usd, if at all, by less than the cost of that
\* response.
C40_OvershootBelowLastCallCost ==
    /\ llm_pc = "attempt" =>
          usage_before.total_cost_usd < config.cost_limit_usd
    /\ (llm_pc = "idle" /\ llm_result.kind = "response"
            /\ usage_tracker.total_cost_usd > config.cost_limit_usd) =>
          usage_tracker.total_cost_usd - config.cost_limit_usd
              < llm_result.response.cost_usd

====
